---- MODULE Spec2Model ----
(***************************************************************************)
(* BookMaster: the Master build pipeline (models/master.py), the track     *)
(* collection loader (models/tracks.py, models/track.py), the structure    *)
(* checksum (utils/file_helpers.py) and the MasterValidator                *)
(* (utils/master_validator.py).                                            *)
(*                                                                         *)
(* File names and relative paths are sequences of one-character strings,   *)
(* file contents are sequences of string tokens.  SHA-256 is modelled as   *)
(* an injective function of the byte stream fed to the hasher.             *)
(***************************************************************************)
EXTENDS Integers, Sequences, FiniteSets, TLC

\* None, as rendered by str()
None == <<"None">>

\* ------------------------------------------------------------------------
\* Bounds
\* ------------------------------------------------------------------------
\* largest number of top-level calls made on one Master instance
MaxCalls == 2
\* largest number of input files that are not plain, loadable audio
MaxOddInputs == 1
\* largest number of file system operations applied to a hashed tree
MaxTreeOps == 2

\* ------------------------------------------------------------------------
\* Characters and strings
\* ------------------------------------------------------------------------
Digits == <<"0", "1", "2", "3", "4", "5", "6", "7", "8", "9">>

UpperCase ==
  <<"A", "B", "C", "D", "E", "F", "G", "H", "I", "J", "K", "L", "M",
    "N", "O", "P", "Q", "R", "S", "T", "U", "V", "W", "X", "Y", "Z">>

LowerCase ==
  <<"a", "b", "c", "d", "e", "f", "g", "h", "i", "j", "k", "l", "m",
    "n", "o", "p", "q", "r", "s", "t", "u", "v", "w", "x", "y", "z">>

\* the characters used, in code point order
Ascii == <<"-", ".", "/">> \o Digits \o UpperCase \o <<"_">> \o LowerCase

Range(f) == {f[x] : x \in DOMAIN f}

\* ord(c)
OrdMap == [c \in Range(Ascii) |-> CHOOSE k \in DOMAIN Ascii : Ascii[k] = c]
Ord(c) == OrdMap[c]

DigitSet == Range(Digits)
IsDigit(c) == c \in DigitSet

DigitMap == [c \in DigitSet |-> (CHOOSE k \in DOMAIN Digits : Digits[k] = c) - 1]
DigitVal(c) == DigitMap[c]

AlnumSet == Range(Digits) \cup Range(UpperCase) \cup Range(LowerCase)
IsAlnum(c) == c \in AlnumSet

LowerMap ==
  [c \in Range(UpperCase) |-> LowerCase[CHOOSE k \in DOMAIN UpperCase : UpperCase[k] = c]]
Lower(c) == IF c \in DOMAIN LowerMap THEN LowerMap[c] ELSE c

UpperMap ==
  [c \in Range(LowerCase) |-> UpperCase[CHOOSE k \in DOMAIN LowerCase : LowerCase[k] = c]]
Upper(c) == IF c \in DOMAIN UpperMap THEN UpperMap[c] ELSE c

\* str.upper()
UpperStr(s) == [k \in DOMAIN s |-> Upper(s[k])]

\* s[-n:]
LastN(s, n) == IF Len(s) <= n THEN s ELSE SubSeq(s, Len(s) - n + 1, Len(s))

\* s[:n]
FirstN(s, n) == IF Len(s) <= n THEN s ELSE SubSeq(s, 1, n)

StartsWith(s, p) == Len(s) >= Len(p) /\ SubSeq(s, 1, Len(p)) = p

EndsWith(s, p) == Len(s) >= Len(p) /\ SubSeq(s, Len(s) - Len(p) + 1, Len(s)) = p

Contains(s, c) == \E k \in DOMAIN s : s[k] = c

\* str(n) for a small non-negative integer
RECURSIVE Str(_)
Str(n) == IF n < 10 THEN <<Digits[n + 1]>> ELSE Str(n \div 10) \o <<Digits[(n % 10) + 1]>>

\* str(n).zfill(w)
RECURSIVE ZFill(_, _)
ZFill(s, w) == IF Len(s) >= w THEN s ELSE ZFill(<<"0">> \o s, w)

IsDecimal(s) == Len(s) > 0 /\ \A k \in DOMAIN s : IsDigit(s[k])

\* int(s) for a string of decimal digits
RECURSIVE ParseInt(_)
ParseInt(s) ==
  IF Len(s) = 0 THEN 0
  ELSE 10 * ParseInt(SubSeq(s, 1, Len(s) - 1)) + DigitVal(s[Len(s)])

\* slugify(): lower case, every run of other characters becomes one "-",
\* leading and trailing "-" are stripped
RECURSIVE SlugRaw(_)
SlugRaw(s) ==
  IF Len(s) = 0 THEN <<>>
  ELSE LET c == IF IsAlnum(s[1]) THEN Lower(s[1]) ELSE "-"
           r == SlugRaw(Tail(s))
       IN IF c = "-" /\ Len(r) > 0 /\ r[1] = "-" THEN r ELSE <<c>> \o r

RECURSIVE StripDash(_)
StripDash(s) ==
  IF Len(s) > 0 /\ s[1] = "-" THEN StripDash(Tail(s))
  ELSE IF Len(s) > 0 /\ s[Len(s)] = "-" THEN StripDash(SubSeq(s, 1, Len(s) - 1))
  ELSE s

slugify(s) == StripDash(SlugRaw(s))

\* ------------------------------------------------------------------------
\* natsort: digit runs compare as integers, the rest by code point
\* ------------------------------------------------------------------------
\* the least element of a non-empty set of integers
Least(S) == CHOOSE k \in S : \A j \in S : k <= j

\* length of the longest prefix of s whose characters are all digits
\* (d = TRUE) or all non-digits (d = FALSE)
RunLen(s, d) ==
  LET stop == {k \in DOMAIN s : IsDigit(s[k]) # d}
  IN IF stop = {} THEN Len(s) ELSE Least(stop) - 1

\* -1, 0, 1: comparison of two strings by code point
StrCmp(a, b) ==
  LET n == IF Len(a) < Len(b) THEN Len(a) ELSE Len(b)
      diff == {k \in 1..n : a[k] # b[k]}
  IN IF diff # {}
       THEN (IF Ord(a[Least(diff)]) < Ord(b[Least(diff)]) THEN -1 ELSE 1)
     ELSE IF Len(a) < Len(b) THEN -1
     ELSE IF Len(a) > Len(b) THEN 1
     ELSE 0

Drop(s, n) == SubSeq(s, n + 1, Len(s))

RECURSIVE NatCmp(_, _)
\* -1, 0, 1: comparison of the natsort keys of a and b
NatCmp(a, b) ==
  LET ka == RunLen(a, FALSE)
      kb == RunLen(b, FALSE)
      c  == StrCmp(SubSeq(a, 1, ka), SubSeq(b, 1, kb))
      ra == Drop(a, ka)
      rb == Drop(b, kb)
  IN IF c # 0 THEN c
     ELSE IF Len(ra) = 0 /\ Len(rb) = 0 THEN 0
     ELSE IF Len(ra) = 0 THEN -1
     ELSE IF Len(rb) = 0 THEN 1
     ELSE LET da == RunLen(ra, TRUE)
              db == RunLen(rb, TRUE)
              na == ParseInt(SubSeq(ra, 1, da))
              nb == ParseInt(SubSeq(rb, 1, db))
          IN IF na < nb THEN -1
             ELSE IF na > nb THEN 1
             ELSE NatCmp(Drop(ra, da), Drop(rb, db))

\* natsorted(): the elements of a set of strings as a sequence in natsort
\* order (the names of one directory have distinct keys here)
natsorted(S) ==
  LET rank == [x \in S |-> Cardinality({y \in S : NatCmp(y, x) < 0})]
  IN [k \in 1..Cardinality(S) |-> CHOOSE x \in S : rank[x] = k - 1]

\* ------------------------------------------------------------------------
\* Paths
\* ------------------------------------------------------------------------
Sep == <<"/">>

\* the components of a relative path: p.split("/")
Split(p) ==
  LET seps == {k \in DOMAIN p : p[k] = "/"}
      cuts == seps \cup {0, Len(p) + 1}
      starts == cuts \ {Len(p) + 1}
      nth(k) == CHOOSE c \in starts : Cardinality({d \in starts : d < c}) = k - 1
  IN [k \in 1..Cardinality(starts) |->
        SubSeq(p, nth(k) + 1, Least({c \in cuts : c > nth(k)}) - 1)]

RECURSIVE Join(_)
\* PurePath.as_posix() of a sequence of components; "." when there is none
Join(cs) ==
  IF Len(cs) = 0 THEN <<".">>
  ELSE IF Len(cs) = 1 THEN cs[1]
  ELSE cs[1] \o Sep \o Join(Tail(cs))

IsPrefix(a, b) == Len(a) <= Len(b) /\ SubSeq(b, 1, Len(a)) = a

\* os.path.commonpath of a non-empty set of paths under one root, as the
\* longest sequence of components every path starts with
commonpath(paths) ==
  LET parts == [p \in paths |-> Split(p)]
      first == parts[CHOOSE p \in paths : TRUE]
      lens == {k \in 0..Len(first) :
                 \A p \in paths : IsPrefix(SubSeq(first, 1, k), parts[p])}
  IN SubSeq(first, 1, CHOOSE k \in lens : \A j \in lens : j <= k)

\* Path.name
BaseName(p) == Split(p)[Len(Split(p))]

\* Path.parent of a relative path, <<>> for an entry of the root
Parent(p) ==
  LET cs == Split(p)
  IN IF Len(cs) = 1 THEN <<>> ELSE Join(SubSeq(cs, 1, Len(cs) - 1))

\* ------------------------------------------------------------------------
\* The canonical structure (Master.output_structure)
\* ------------------------------------------------------------------------
tracks_path == <<"t", "r", "a", "c", "k", "s">>
info_path == <<"b", "o", "o", "k", "I", "n", "f", "o">>
id_file == info_path \o Sep \o <<"i", "d", ".", "t", "x", "t">>
count_file == info_path \o Sep \o <<"c", "o", "u", "n", "t", ".", "t", "x", "t">>
metadata_file == <<".", "m", "e", "t", "a", "d", "a", "t", "a", "_", "n", "e", "v", "e", "r", "_", "i", "n", "d", "e", "x">>
checksum_file == info_path \o Sep \o <<"c", "h", "e", "c", "k", "s", "u", "m", ".", "t", "x", "t">>

output_structure ==
  <<tracks_path, info_path, id_file, count_file, metadata_file, checksum_file>>

\* Tracks._load_files: settings.get("valid_extensions", ['.mp3', '.wav'])
valid_extensions == {<<".", "m", "p", "3">>, <<".", "w", "a", "v">>}

\* file_helpers.EXCLUDED_DIRS
EXCLUDED_DIRS == {<<".", "f", "s", "e", "v", "e", "n", "t", "s", "d">>, <<".", "S", "p", "o", "t", "l", "i", "g", "h", "t", "-", "V", "1", "0", "0">>, <<".", "T", "r", "a", "s", "h", "e", "s">>, <<".", "D", "S", "_", "S", "t", "o", "r", "e">>}

\* ------------------------------------------------------------------------
\* Directory trees: a function from relative path to an entry, an entry is
\* a directory or a file with its content
\* ------------------------------------------------------------------------
DirEntry == [dir |-> TRUE, data |-> <<>>]
FileEntry(c) == [dir |-> FALSE, data |-> c]
EmptyTree == <<>>

Paths(tree) == DOMAIN tree
Files(tree) == {p \in DOMAIN tree : ~tree[p].dir}
Put(tree, p, e) == [q \in DOMAIN tree \cup {p} |-> IF q = p THEN e ELSE tree[q]]
Without(tree, ps) == [q \in DOMAIN tree \ ps |-> tree[q]]
\* the entries directly inside directory d
Children(tree, d) == {p \in DOMAIN tree : Parent(p) = d}

\* ------------------------------------------------------------------------
\* compute_sha256 (utils/file_helpers.py)
\* ------------------------------------------------------------------------
\* hashlib.sha256(stream).hexdigest(): injective in the stream
hexdigest(stream) == <<"sha256[">> \o stream \o <<"]">>

RECURSIVE HashFeed(_, _, _)
\* the bytes fed to the hasher for the paths ps (a sequence, in order)
HashFeed(ps, tree, base) ==
  IF Len(ps) = 0 THEN <<>>
  ELSE LET p == ps[1]
           parts == Split(p)
           included == /\ ~tree[p].dir
                       /\ ~\E k \in DOMAIN parts : parts[k] \in EXCLUDED_DIRS
       IN (IF included THEN Join(Drop(parts, Len(base))) \o tree[p].data ELSE <<>>)
          \o HashFeed(Tail(ps), tree, base)

\* compute_sha256(file_paths, base_path=None); the paths are given relative
\* to one root, so that the common parent is a sequence of components
compute_sha256(file_paths, tree) ==
  IF file_paths = {} THEN None
  ELSE hexdigest(HashFeed(natsorted(file_paths), tree, commonpath(file_paths)))

\* ------------------------------------------------------------------------
\* Track and Tracks (models/track.py, models/tracks.py)
\* ------------------------------------------------------------------------
\* The first token of a file's content tells how the audio tools see it:
\*   "audio"   a sound publisher file
\*   "enc"     a complete encoder output
\*   "partial" what a failed encoder run left behind (no duration)
\*   "nodur"   a file whose probe reports no duration
\*   "bad"     a file for which Track() raises
\*   "text"    not audio at all
Loadable(data) == Len(data) = 0 \/ data[1] # "bad"
HasDuration(data) == Len(data) > 0 /\ data[1] \in {"audio", "enc"}

\* Track.__init__: output_file
output_file(index, isbn_, sku_) ==
  FirstN(ZFill(Str(index), 3) \o <<"_">> \o slugify(LastN(isbn_, 5))
         \o UpperStr(slugify(LastN(sku_, 4))), 13) \o <<".", "m", "p", "3">>

Track(name, index, data, isbn_, sku_) ==
  [file |-> name, index |-> index, output |-> output_file(index, isbn_, sku_),
   duration |-> HasDuration(data)]

NoTracks == [loaded |-> FALSE, files |-> <<>>]

\* the directory listing Tracks._load_files enumerates, sorted
Discovered(dir) ==
  natsorted({n \in DOMAIN dir : \E ext \in valid_extensions : EndsWith(n, ext)})

\* the loop over the files is left at the first file whose construction raises
LoadFilesUntilBad(dir, isbn_, sku_) ==
  LET fs == Discovered(dir)
      all == [k \in DOMAIN fs |-> Track(fs[k], k, dir[fs[k]], isbn_, sku_)]
  IN SelectSeq(all, LAMBDA t : \A k \in 1..t.index : Loadable(dir[fs[k]]))

\* Tracks._load_files on a flat directory (name -> content): the Track
\* objects in order, a file whose construction raises is skipped
LoadFiles(dir, isbn_, sku_) ==
  LET fs == Discovered(dir)
      all == [k \in DOMAIN fs |-> Track(fs[k], k, dir[fs[k]], isbn_, sku_)]
  IN SelectSeq(all, LAMBDA t : Loadable(dir[t.file]))

\* Tracks(...): raises ValueError when no file survives
TracksRaises(dir, isbn_, sku_) == Len(LoadFiles(dir, isbn_, sku_)) = 0

Tracks(dir, isbn_, sku_) == [loaded |-> TRUE, files |-> LoadFiles(dir, isbn_, sku_)]

\* the files directly inside directory d of a tree, as a flat directory
FlatDir(tree, d) ==
  LET ps == {p \in Children(tree, d) : ~tree[p].dir}
  IN [n \in {BaseName(p) : p \in ps} |-> tree[d \o Sep \o n].data]

\* the folder is left with what it holds
keep_folder(tree) ==
  tree

\* ------------------------------------------------------------------------
\* remove_folder (utils/file_helpers.py), for a folder inside output_folder:
\* the folder is deleted and recreated empty
\* ------------------------------------------------------------------------
remove_folder(tree) ==
  EmptyTree

\* ------------------------------------------------------------------------
\* Master.checksum: compute_sha256 over natsorted(master_structure.rglob("*"))
\* ------------------------------------------------------------------------
checksum(structure_set, tree) ==
  IF ~structure_set THEN None ELSE compute_sha256(Paths(tree), tree)

\* ------------------------------------------------------------------------
\* MasterValidator (utils/master_validator.py)
\* ------------------------------------------------------------------------
SYSTEM_EXEMPT == {<<".", "m", "e", "t", "a", "d", "a", "t", "a", "_", "n", "e", "v", "e", "r", "_", "i", "n", "d", "e", "x">>}

AudioExts == {<<".", "m", "p", "3">>, <<".", "w", "a", "v">>, <<".", "w", "v">>, <<".", "m", "4", "a">>, <<".", "f", "l", "a", "c">>, <<".", "a", "a", "c">>}

\* str.lower()
LowerStr(s) == [k \in DOMAIN s |-> Lower(s[k])]

\* Path.suffix
Suffix(name) ==
  LET dots == {k \in DOMAIN name : name[k] = "."}
  IN IF dots = {} THEN <<>>
     ELSE LET k == CHOOSE d \in dots : \A e \in dots : e <= d
          IN IF k > 1 /\ k < Len(name) THEN Drop(name, k - 1) ELSE <<>>

RECURSIVE Strip(_)
\* str.strip()
Strip(s) ==
  IF Len(s) > 0 /\ s[1] = " " THEN Strip(Tail(s))
  ELSE IF Len(s) > 0 /\ s[Len(s)] = " " THEN Strip(SubSeq(s, 1, Len(s) - 1))
  ELSE s

IsDotName(n) == Len(n) > 0 /\ n[1] = "." /\ n \notin SYSTEM_EXEMPT

\* every dot-prefixed entry not inside a captured dot-directory, the
\* exemption list left out
ScanAllDotNames(tree) ==
  {p \in Paths(tree) :
     /\ BaseName(p)[1] = "."
     /\ \A k \in 1..(Len(Split(p)) - 1) : Split(p)[k][1] # "."}

\* MasterValidator._scan_system_artifacts: dot-prefixed entries that are not
\* exempt and not inside an already captured dot-directory
ScanSystemArtifacts(tree) ==
  {p \in Paths(tree) :
     /\ IsDotName(BaseName(p))
     /\ \A k \in 1..(Len(Split(p)) - 1) : ~IsDotName(Split(p)[k])}

\* MasterValidator._system_files with fix_system_files = False
SystemFilesErrors(tree) ==
  IF ScanSystemArtifacts(tree) # {} THEN <<"system_files">> ELSE <<>>

SystemFilesWarnings(tree) ==
  IF ScanSystemArtifacts(tree) # {} THEN <<>> ELSE <<"no_system_paths">>

\* MasterValidator._ensure_metadata_never_index
MetadataErrors(tree) ==
  IF metadata_file \in Paths(tree) /\ tree[metadata_file].dir
    THEN <<"metadata_not_file">> ELSE <<>>

MetadataWarnings(tree) ==
  IF metadata_file \notin Paths(tree) THEN <<"missing_metadata">> ELSE <<>>

\* the audio files MasterValidator._check_tracks_folder counts
ValidatorAudio(tree) ==
  {p \in Children(tree, tracks_path) :
     /\ ~tree[p].dir
     /\ LowerStr(Suffix(BaseName(p))) \in AudioExts
     /\ ~StartsWith(BaseName(p), <<".", "_">>)
     /\ ~StartsWith(BaseName(p), <<".">>)}

\* MasterValidator._check_tracks_folder
CheckTracksFolder(tree) ==
  IF tracks_path \notin Paths(tree) THEN <<"missing_tracks">>
  ELSE IF ~tree[tracks_path].dir THEN <<"tracks_not_dir">>
  ELSE LET actual_count == Cardinality(ValidatorAudio(tree))
           noaudio == IF actual_count = 0 THEN <<"no_audio">> ELSE <<>>
       IN IF count_file \notin Paths(tree) \/ tree[count_file].dir
            THEN noaudio \o <<"missing_count">>
          ELSE LET expected_str == Strip(tree[count_file].data)
               IN IF ~IsDecimal(expected_str)
                    THEN noaudio \o <<"invalid_count">>
                  ELSE IF ParseInt(expected_str) # actual_count
                    THEN noaudio \o <<"count_mismatch">>
                  ELSE noaudio

\* MasterValidator._check_bookinfo_id; expected is the caller's expected_isbn,
\* master_isbn the isbn attribute of the Master handed to the validator
CheckBookinfoId(tree, expected, master_isbn) ==
  IF info_path \notin Paths(tree) \/ ~tree[info_path].dir THEN <<"missing_bookinfo">>
  ELSE IF id_file \notin Paths(tree) THEN <<"missing_id">>
  ELSE LET file_isbn == Strip(tree[id_file].data)
       IN (IF Len(expected) > 0 /\ file_isbn # expected
             THEN <<"isbn_mismatch">> ELSE <<>>)
          \o (IF Len(master_isbn) > 0 /\ file_isbn # master_isbn
                THEN <<"isbn_mismatch">> ELSE <<>>)

\* MasterValidator.validate(fix_system_files=False) on a Master target
validate(tree, expected, master_isbn) ==
  LET errors == SystemFilesErrors(tree) \o MetadataErrors(tree)
                \o CheckTracksFolder(tree) \o CheckBookinfoId(tree, expected, master_isbn)
      warnings == SystemFilesWarnings(tree) \o MetadataWarnings(tree)
  IN [ok |-> Len(errors) = 0, errors |-> errors, warnings |-> warnings]

\* ------------------------------------------------------------------------
\* State
\* ------------------------------------------------------------------------
VARIABLES
  isbn,              \* Master.isbn
  sku,               \* Master.sku
  skip_encoding,     \* Master.skip_encoding
  inputDir,          \* the publisher's input folder: name -> content
  procDir,           \* Master.processed_path: name -> content
  masterTree,        \* the tree under Master.master_path
  input_tracks,      \* Master.input_tracks
  processed_tracks,  \* Master.processed_tracks
  master_tracks,     \* Master.master_tracks
  master_structure,  \* TRUE once Master.master_structure is set
  pc,                \* the statement the running call is at, "idle" when none runs
  i,                 \* loop index of the running copy loop
  todo,              \* the tracks the running encode loop has still to convert
  inCreate,          \* TRUE when the last top-level call is Master.create
  calls,             \* number of top-level calls made so far
  trace,             \* the steps the running top-level call has completed
  result,            \* outcome of the last top-level call: "none", "ok", "raised"
  encoder_runs,      \* number of external encoder invocations so far
  image_log,         \* the calls whose create_disk_image returned an image path
  usb_log,           \* the calls whose image was handed to the USB writer
  hashTree,          \* a directory tree whose checksum is taken (SpecHash)
  hashTree0,         \* that tree before the last file system operation
  lastOp,            \* the last file system operation on hashTree
  treeOps,           \* number of operations applied to hashTree
  calc,              \* a calculation on its own: function, arguments, result (SpecCalc)
  img,               \* a running DiskImage.create_disk_image call (SpecImage)
  vld,               \* a MasterValidator and the folder it validates (SpecValidate)
  hub,               \* a USBHub, its monitor thread and a reader (SpecHub)
  task,              \* an ImageWriteTask, its worker thread and its caller (SpecWrite)
  registry           \* the registry sheet and the claims made on it (SpecRegistry)

vars ==
  <<isbn, sku, skip_encoding, inputDir, procDir, masterTree, input_tracks,
    processed_tracks, master_tracks, master_structure, pc, i, todo, inCreate,
    calls, trace, result, encoder_runs, image_log, usb_log,
    hashTree, hashTree0, lastOp, treeOps, calc, img, vld, hub, task, registry>>

settingsVars == <<isbn, sku, skip_encoding, inputDir>>
hashVars == <<hashTree, hashTree0, lastOp, treeOps>>
\* what the pipeline never touches
devVars == <<hub, task, registry>>
sideVars == <<hashVars, calc, img, vld, devVars>>

\* ------------------------------------------------------------------------
\* Initial states: the settings, the input folder and what earlier runs left
\* ------------------------------------------------------------------------
Isbns == {<<>>, <<"9", "7">>}
Skus == {<<>>, <<"B", "-", "a">>}

\* the publisher's files, as numbered by the publisher; an input folder
\* holds the first few of them
InputNames == <<<<"1", ".", "m", "p", "3">>, <<"2", ".", "m", "p", "3">>, <<"1", "0", ".", "m", "p", "3">>>>
InputKinds == {"audio", "nodur", "bad"}

InputDirs ==
  LET sets == {{InputNames[k] : k \in 1..n} : n \in 0..Len(InputNames)}
      kinds == UNION {[S -> InputKinds] : S \in sets}
      few == {k \in kinds : Cardinality({n \in DOMAIN k : k[n] # "audio"}) <= MaxOddInputs}
  IN {[n \in DOMAIN k |-> <<k[n]>> \o n] : k \in few}

\* what an earlier run with the same settings left in the processed folder:
\* nothing, or its outputs, the last one possibly cut short
StaleProc(isbn_, sku_, n, cut) ==
  [f \in {output_file(k, isbn_, sku_) : k \in 1..n} |->
     IF cut /\ f = output_file(n, isbn_, sku_) THEN <<"partial">> ELSE <<"enc">> \o <<"o", "l", "d">>]


\* the AppleDouble companion macOS writes next to the first output on a
\* volume without extended attributes
StaleDouble(isbn_, sku_) ==
  (<<".", "_">> \o output_file(1, isbn_, sku_)) :> <<"text">>

\* what an earlier run left under the master root
StaleTree ==
  (tracks_path :> DirEntry)
  @@ ((tracks_path \o Sep \o <<"0", "0", "9", "_", "o", "l", "d", ".", "m", "p", "3">>) :> FileEntry(<<"enc">> \o <<"o", "l", "d">>))
  @@ (<<".", "D", "S", "_", "S", "t", "o", "r", "e">> :> FileEntry(<<"text">>))

\* the output folder at start: fresh, or as an earlier run left it
OutputFolders(isbn_, sku_) ==
  {[proc |-> <<>>, master |-> EmptyTree],
   [proc |-> StaleProc(isbn_, sku_, 2, FALSE), master |-> StaleTree],
   [proc |-> StaleProc(isbn_, sku_, 3, TRUE), master |-> StaleTree],
   [proc |-> StaleProc(isbn_, sku_, 2, FALSE) @@ StaleDouble(isbn_, sku_),
    master |-> StaleTree]}

NoCalc == [fn |-> "none", size |-> 0, rate |-> 0, out |-> 0, done |-> FALSE]

CalcIdle == calc = NoCalc
\* no disk image is being built
NoImg == [pc |-> "off"]
ImgIdle == img = NoImg
\* no validator is in use
NoVld == [pc |-> "off"]
VldIdle == vld = NoVld
\* no hub, no write task and no registry is in use
NoHub == [pc |-> "off"]
HubIdle == hub = NoHub
NoTask == [pc |-> "off"]
TaskIdle == task = NoTask
NoRegistry == [pc |-> "off"]
RegistryIdle == registry = NoRegistry
DevicesIdle == HubIdle /\ TaskIdle /\ RegistryIdle

HashIdle ==
  /\ hashTree = EmptyTree
  /\ hashTree0 = EmptyTree
  /\ lastOp = "none"
  /\ treeOps = 0

Init ==
  /\ isbn \in Isbns
  /\ sku \in Skus
  /\ skip_encoding \in BOOLEAN
  /\ inputDir \in InputDirs
  /\ \E out \in OutputFolders(isbn, sku) :
       procDir = out.proc /\ masterTree = out.master
  /\ input_tracks = NoTracks
  /\ processed_tracks = NoTracks
  /\ master_tracks = NoTracks
  /\ master_structure = FALSE
  /\ pc = "idle"
  /\ i = 0
  /\ todo = <<>>
  /\ inCreate = FALSE
  /\ calls = 0
  /\ trace = <<>>
  /\ result = "none"
  /\ encoder_runs = 0
  /\ image_log = {}
  /\ usb_log = {}
  /\ HashIdle
  /\ CalcIdle
  /\ ImgIdle
  /\ VldIdle
  /\ DevicesIdle

\* ------------------------------------------------------------------------
\* Calls and returns
\* ------------------------------------------------------------------------
fsVars == <<procDir, masterTree>>
collVars == <<input_tracks, processed_tracks, master_tracks, master_structure>>
logVars == <<encoder_runs, image_log, usb_log>>
loopVars == <<i, todo>>

\* a top-level call on the Master instance
Call(start, create) ==
  /\ pc = "idle"
  /\ calls < MaxCalls
  /\ calls' = calls + 1
  /\ pc' = start
  /\ inCreate' = create
  /\ trace' = <<>>
  /\ result' = "none"
  /\ i' = 0
  /\ UNCHANGED <<settingsVars, fsVars, collVars, logVars, todo, sideVars>>

\* an exception leaves the running call, and Master.create with it
Raise ==
  /\ pc' = "idle"
  /\ result' = "raised"
  /\ i' = 0
  /\ UNCHANGED <<inCreate, calls, trace>>

\* the running method returns: create() goes on with its next statement
Return(step, next) ==
  /\ trace' = Append(trace, step)
  /\ pc' = IF inCreate THEN next ELSE "idle"
  /\ result' = IF inCreate THEN result ELSE "ok"
  /\ i' = 0
  /\ UNCHANGED <<inCreate, calls>>

\* Master.create(input_folder, usb_drive)
Create == Call("load", TRUE)

CallLoadInputTracks == Call("load", FALSE)
CallProcessTracks == Call("process", FALSE)
CallEncodeTracks == Call("encode", FALSE)
CallCreateMasterStructure == Call("cms", FALSE)

\* ------------------------------------------------------------------------
\* Master.load_input_tracks
\* ------------------------------------------------------------------------
LoadInputTracks ==
  /\ pc = "load"
  /\ LET loaded == Tracks(inputDir, isbn, sku)
     IN Len(loaded.files) > 0 /\ input_tracks' = loaded
  /\ Return("load", "process")
  /\ UNCHANGED <<settingsVars, fsVars, processed_tracks, master_tracks,
                 master_structure, logVars, todo, sideVars>>

LoadInputTracksRaise ==
  /\ pc = "load"
  /\ TracksRaises(inputDir, isbn, sku)
  /\ Raise
  /\ UNCHANGED <<settingsVars, fsVars, collVars, logVars, todo, sideVars>>

\* ------------------------------------------------------------------------
\* Master.process_tracks
\* ------------------------------------------------------------------------
\* processed_path.glob("*.*")
GlobStarDotStar(dir) == {n \in DOMAIN dir : Contains(n, ".")}

\* the reuse branch is taken
ReuseCond ==
  /\ skip_encoding
  /\ DOMAIN procDir # {}
  /\ Cardinality(GlobStarDotStar(procDir)) = Len(input_tracks.files)

\* the processed folder wiped before the missing input is noticed
ProcessTracksRaiseAfterWipe ==
  /\ pc = "process"
  /\ ~input_tracks.loaded
  /\ procDir' = remove_folder(procDir)
  /\ Raise
  /\ UNCHANGED <<settingsVars, masterTree, collVars, logVars, todo, sideVars>>

ProcessTracksRaise ==
  /\ pc = "process"
  /\ ~input_tracks.loaded
  /\ Raise
  /\ UNCHANGED <<settingsVars, fsVars, collVars, logVars, todo, sideVars>>

ProcessTracksReuse ==
  /\ pc = "process"
  /\ input_tracks.loaded
  /\ ReuseCond
  /\ LET loaded == Tracks(procDir, isbn, sku)
     IN IF Len(loaded.files) = 0
          THEN processed_tracks' = NoTracks /\ Raise
          ELSE processed_tracks' = loaded /\ Return("process", "cms")
  /\ UNCHANGED <<settingsVars, fsVars, input_tracks, master_tracks,
                 master_structure, logVars, todo, sideVars>>

\* the wipe branch taken whatever the processed folder holds
ProcessTracksWipeAlways ==
  /\ pc = "process"
  /\ input_tracks.loaded
  /\ processed_tracks' = IF skip_encoding THEN NoTracks ELSE processed_tracks
  /\ procDir' = remove_folder(procDir)
  /\ pc' = "encode"
  /\ i' = 1
  /\ UNCHANGED <<settingsVars, masterTree, input_tracks, master_tracks,
                 master_structure, inCreate, calls, trace, result,
                 logVars, todo, sideVars>>

\* the processed folder is wiped and encode_tracks is entered
ProcessTracksWipe ==
  /\ pc = "process"
  /\ input_tracks.loaded
  /\ ~ReuseCond
  /\ processed_tracks' = IF skip_encoding THEN NoTracks ELSE processed_tracks
  /\ procDir' = remove_folder(procDir)
  /\ pc' = "encode"
  /\ i' = 1
  /\ UNCHANGED <<settingsVars, masterTree, input_tracks, master_tracks,
                 master_structure, inCreate, calls, trace, result,
                 logVars, todo, sideVars>>

\* ------------------------------------------------------------------------
\* Master.encode_tracks and Track.convert
\* ------------------------------------------------------------------------
\* natsorted(self.input_tracks.files, key=lambda t: t.file_path.name)
EncodeOrder(files) ==
  LET names == natsorted({files[k].file : k \in DOMAIN files})
  IN [k \in DOMAIN names |-> CHOOSE t \in Range(files) : t.file = names[k]]

EncodeTracksRaise ==
  /\ pc = "encode"
  /\ ~input_tracks.loaded
  /\ Raise
  /\ UNCHANGED <<settingsVars, fsVars, collVars, logVars, todo, sideVars>>

\* the loop is entered over the sorted input tracks
EncodeTracksBegin ==
  /\ pc = "encode"
  /\ input_tracks.loaded
  /\ todo' = EncodeOrder(input_tracks.files)
  /\ pc' = "convert"
  /\ UNCHANGED <<settingsVars, fsVars, collVars, i, inCreate, calls, trace,
                 result, logVars, sideVars>>

\* Track.convert of the next track: the encoder writes the output file
ConvertTrack ==
  /\ pc = "convert"
  /\ Len(todo) > 0
  /\ Head(todo).duration
  /\ procDir' = Put(procDir, Head(todo).output, <<"enc">> \o Head(todo).file)
  /\ encoder_runs' = encoder_runs + 1
  /\ todo' = Tail(todo)
  /\ UNCHANGED <<settingsVars, masterTree, collVars, pc, i, inCreate, calls,
                 trace, result, image_log, usb_log, sideVars>>

\* the missing duration is noticed only once the encoder has run and has
\* left an output file
ConvertTrackNoDurationLate ==
  /\ pc = "convert"
  /\ Len(todo) > 0
  /\ ~Head(todo).duration
  /\ procDir' = Put(procDir, Head(todo).output, <<"partial">>)
  /\ encoder_runs' = encoder_runs + 1
  /\ todo' = <<>>
  /\ Raise
  /\ UNCHANGED <<settingsVars, masterTree, collVars, image_log, usb_log, sideVars>>

\* Track.convert raises before the encoder runs: duration unknown
ConvertTrackNoDuration ==
  /\ pc = "convert"
  /\ Len(todo) > 0
  /\ ~Head(todo).duration
  /\ todo' = <<>>
  /\ Raise
  /\ UNCHANGED <<settingsVars, fsVars, collVars, logVars, sideVars>>

\* the encoder fails (ffmpeg.Error): it may leave a partial output file
ConvertTrackFail ==
  /\ pc = "convert"
  /\ Len(todo) > 0
  /\ Head(todo).duration
  /\ \E left \in BOOLEAN :
       procDir' = IF left THEN Put(procDir, Head(todo).output, <<"partial">>)
                  ELSE procDir
  /\ encoder_runs' = encoder_runs + 1
  /\ todo' = <<>>
  /\ Raise
  /\ UNCHANGED <<settingsVars, masterTree, collVars, image_log, usb_log, sideVars>>

\* after the loop the processed folder is loaded as a fresh collection
EncodeTracksFinish ==
  /\ pc = "convert"
  /\ Len(todo) = 0
  /\ LET loaded == Tracks(procDir, isbn, sku)
     IN IF Len(loaded.files) = 0
          THEN UNCHANGED processed_tracks /\ Raise
          ELSE processed_tracks' = loaded /\ Return("process", "cms")
  /\ UNCHANGED <<settingsVars, fsVars, input_tracks, master_tracks,
                 master_structure, logVars, todo, sideVars>>

\* ------------------------------------------------------------------------
\* Master.create_master_structure
\* ------------------------------------------------------------------------
RECURSIVE CreateStructure(_, _)
\* the loop over output_structure: a relative path without "." is made a
\* directory, any other is touched
CreateStructure(t, k) ==
  IF k > Len(output_structure) THEN t
  ELSE LET rel_path == output_structure[k]
       IN IF ~Contains(rel_path, ".")
            THEN CreateStructure(Put(t, rel_path, DirEntry), k + 1)
          ELSE IF rel_path \in Paths(t)
            THEN CreateStructure(t, k + 1)
          ELSE CreateStructure(Put(t, rel_path, FileEntry(<<>>)), k + 1)

CreateMasterStructureRaise ==
  /\ pc = "cms"
  /\ ~processed_tracks.loaded
  /\ Raise
  /\ UNCHANGED <<settingsVars, fsVars, collVars, logVars, todo, sideVars>>

\* the layout created over whatever the master root holds, without the wipe
CreateMasterStructureNoWipe ==
  /\ pc = "cms"
  /\ processed_tracks.loaded
  /\ master_structure' = TRUE
  /\ masterTree' = CreateStructure(masterTree, 1)
  /\ pc' = "cms_info"
  /\ UNCHANGED <<settingsVars, procDir, input_tracks, processed_tracks,
                 master_tracks, i, inCreate, calls, trace, result,
                 logVars, todo, sideVars>>

\* master_structure is set, the master root is wiped and the layout created
CreateMasterStructureBegin ==
  /\ pc = "cms"
  /\ processed_tracks.loaded
  /\ master_structure' = TRUE
  /\ masterTree' = CreateStructure(remove_folder(masterTree), 1)
  /\ pc' = "cms_info"
  /\ UNCHANGED <<settingsVars, procDir, input_tracks, processed_tracks,
                 master_tracks, i, inCreate, calls, trace, result,
                 logVars, todo, sideVars>>

\* count.txt written with the number of files of the input folder
WriteInfoInputCount ==
  /\ pc = "cms_info"
  /\ masterTree' = Put(Put(masterTree, id_file, FileEntry(isbn)),
                       count_file, FileEntry(Str(Cardinality(DOMAIN inputDir))))
  /\ pc' = "cms_checksum"
  /\ UNCHANGED <<settingsVars, procDir, collVars, i, inCreate, calls,
                 trace, result, logVars, todo, sideVars>>

\* id.txt and count.txt are written
WriteInfo ==
  /\ pc = "cms_info"
  /\ masterTree' = Put(Put(masterTree, id_file, FileEntry(isbn)),
                       count_file, FileEntry(Str(Len(processed_tracks.files))))
  /\ pc' = "cms_checksum"
  /\ UNCHANGED <<settingsVars, procDir, collVars, i, inCreate, calls,
                 trace, result, logVars, todo, sideVars>>

\* checksum.txt is written with str(self.checksum)
WriteChecksum ==
  /\ pc = "cms_checksum"
  /\ masterTree' = Put(masterTree, checksum_file,
                       FileEntry(checksum(master_structure, masterTree)))
  /\ pc' = "cms_copy"
  /\ i' = 1
  /\ UNCHANGED <<settingsVars, procDir, collVars, inCreate, calls,
                 trace, result, logVars, todo, sideVars>>

\* shutil.copy of the next processed track into tracks/
CopyTrack ==
  /\ pc = "cms_copy"
  /\ i <= Len(processed_tracks.files)
  /\ LET f == processed_tracks.files[i].file
     IN /\ f \in DOMAIN procDir
        /\ masterTree' = Put(masterTree, tracks_path \o Sep \o f, FileEntry(procDir[f]))
  /\ i' = i + 1
  /\ UNCHANGED <<settingsVars, procDir, collVars, pc, inCreate, calls,
                 trace, result, logVars, todo, sideVars>>

\* shutil.copy raises: the processed file is gone from the processed folder,
\* or the operating system refuses the write
CopyTrackRaise ==
  /\ pc = "cms_copy"
  /\ i <= Len(processed_tracks.files)
  /\ Raise
  /\ UNCHANGED <<settingsVars, fsVars, collVars, logVars, todo, sideVars>>

\* master_tracks is loaded from tracks/ and the method returns
CreateMasterStructureFinish ==
  /\ pc = "cms_copy"
  /\ i > Len(processed_tracks.files)
  /\ LET dir == FlatDir(masterTree, tracks_path)
         loaded == Tracks(dir, isbn, sku)
     IN IF Len(loaded.files) = 0
          THEN UNCHANGED master_tracks /\ Raise
          ELSE master_tracks' = loaded /\ Return("structure", "image")
  /\ UNCHANGED <<settingsVars, fsVars, input_tracks, processed_tracks,
                 master_structure, logVars, todo, sideVars>>

\* ------------------------------------------------------------------------
\* DiskImage.create_disk_image and the USB write, as called by Master.create
\* ------------------------------------------------------------------------
\* every tool succeeded: the image is published and its path returned
CreateDiskImage ==
  /\ pc = "image"
  /\ master_structure
  /\ image_log' = image_log \cup {calls}
  /\ Return("image", "usb")
  /\ UNCHANGED <<settingsVars, fsVars, collVars, encoder_runs, usb_log, todo, sideVars>>

\* the tool failure swallowed: create() goes on without an image
CreateDiskImageSwallow ==
  /\ pc = "image"
  /\ Return("image", "usb")
  /\ UNCHANGED <<settingsVars, fsVars, collVars, logVars, todo, sideVars>>

\* a format or copy tool returned non-zero: RuntimeError
CreateDiskImageRaise ==
  /\ pc = "image"
  /\ Raise
  /\ UNCHANGED <<settingsVars, fsVars, collVars, logVars, todo, sideVars>>

\* a usb_drive was given: usb_drive.write_disk_image(image_file)
WriteDiskImage ==
  /\ pc = "usb"
  /\ usb_log' = usb_log \cup {calls}
  /\ trace' = Append(trace, "usb")
  /\ pc' = "idle"
  /\ result' = "ok"
  /\ UNCHANGED <<settingsVars, fsVars, collVars, encoder_runs, image_log, i,
                 inCreate, calls, todo, sideVars>>

\* no usb_drive was given: create() returns
CreateReturn ==
  /\ pc = "usb"
  /\ pc' = "idle"
  /\ result' = "ok"
  /\ UNCHANGED <<settingsVars, fsVars, collVars, logVars, i, inCreate, calls,
                 trace, todo, sideVars>>

Next ==
  \/ Create
  \/ CallLoadInputTracks
  \/ CallProcessTracks
  \/ CallEncodeTracks
  \/ CallCreateMasterStructure
  \/ LoadInputTracks
  \/ LoadInputTracksRaise
  \/ ProcessTracksRaise
  \/ ProcessTracksReuse
  \/ ProcessTracksWipe
  \/ EncodeTracksRaise
  \/ EncodeTracksBegin
  \/ ConvertTrack
  \/ ConvertTrackNoDuration
  \/ ConvertTrackFail
  \/ EncodeTracksFinish
  \/ CreateMasterStructureRaise
  \/ CreateMasterStructureBegin
  \/ WriteInfo
  \/ WriteChecksum
  \/ CopyTrack
  \/ CopyTrackRaise
  \/ CreateMasterStructureFinish
  \/ CreateDiskImage
  \/ CreateDiskImageRaise
  \/ WriteDiskImage
  \/ CreateReturn

Spec == Init /\ [][Next]_vars

\* ------------------------------------------------------------------------
\* compute_sha256 over a directory tree that is edited between two
\* computations (a second specification, for the digest alone)
\* ------------------------------------------------------------------------
MaxHashFiles == 2

HashPaths ==
  {<<"a", "b", "a">>, <<"b", "a">>, <<"a", "b">>, <<"t", "/", "a">>}
HashData == {<<>>, <<"a">>, <<"b">>}

\* the tree that holds the files of c, with the directories above them
TreeOf(c) ==
  LET dirs == {Parent(p) : p \in DOMAIN c} \ {<<>>}
  IN [p \in DOMAIN c \cup dirs |->
        IF p \in DOMAIN c THEN FileEntry(c[p]) ELSE DirEntry]

HashTrees ==
  LET sets == {S \in SUBSET HashPaths : Cardinality(S) \in 1..MaxHashFiles}
  IN {TreeOf(c) : c \in UNION {[S -> HashData] : S \in sets}}

PipelineIdle ==
  /\ isbn = <<>>
  /\ sku = <<>>
  /\ skip_encoding = FALSE
  /\ inputDir = <<>>
  /\ procDir = <<>>
  /\ masterTree = EmptyTree
  /\ input_tracks = NoTracks
  /\ processed_tracks = NoTracks
  /\ master_tracks = NoTracks
  /\ master_structure = FALSE
  /\ pc = "idle"
  /\ i = 0
  /\ todo = <<>>
  /\ inCreate = FALSE
  /\ calls = 0
  /\ trace = <<>>
  /\ result = "none"
  /\ encoder_runs = 0
  /\ image_log = {}
  /\ usb_log = {}

pipelineVars == <<settingsVars, fsVars, collVars, logVars, loopVars, pc,
                  inCreate, calls, trace, result>>

InitHash ==
  /\ PipelineIdle
  /\ DevicesIdle
  /\ CalcIdle
  /\ ImgIdle
  /\ VldIdle
  /\ hashTree \in HashTrees
  /\ hashTree0 = hashTree
  /\ lastOp = "none"
  /\ treeOps = 0

\* compute_sha256 over every path of the tree, as Master.checksum calls it
TreeDigest(tree) == compute_sha256(Paths(tree), tree)

\* the digest is taken again, the tree untouched
HashRecompute ==
  /\ treeOps < MaxTreeOps
  /\ hashTree0' = hashTree
  /\ hashTree' = hashTree
  /\ lastOp' = "compute"
  /\ treeOps' = treeOps + 1
  /\ UNCHANGED <<pipelineVars, devVars, calc, img, vld>>

\* one byte of one file is changed
HashModifyByte ==
  /\ treeOps < MaxTreeOps
  /\ \E p \in Files(hashTree) :
       \E k \in DOMAIN hashTree[p].data :
         \E c \in {<<"a">>, <<"b">>} :
           /\ c[1] # hashTree[p].data[k]
           /\ hashTree' = Put(hashTree, p,
                              FileEntry([hashTree[p].data EXCEPT ![k] = c[1]]))
  /\ hashTree0' = hashTree
  /\ lastOp' = "modify"
  /\ treeOps' = treeOps + 1
  /\ UNCHANGED <<pipelineVars, devVars, calc, img, vld>>

\* one file is renamed to a path that is free, inside an existing directory
HashRename ==
  /\ treeOps < MaxTreeOps
  /\ \E p \in Files(hashTree) :
       \E q \in HashPaths \ Paths(hashTree) :
         /\ Parent(q) = <<>> \/ Parent(q) \in Paths(hashTree)
         /\ hashTree' = Put(Without(hashTree, {p}), q, hashTree[p])
  /\ hashTree0' = hashTree
  /\ lastOp' = "rename"
  /\ treeOps' = treeOps + 1
  /\ UNCHANGED <<pipelineVars, devVars, calc, img, vld>>

NextHash ==
  \/ HashRecompute
  \/ HashModifyByte
  \/ HashRename

SpecHash == InitHash /\ [][NextHash]_vars


\* ------------------------------------------------------------------------
\* Calculations on their own (a third specification): the bit rate that
\* makes the tracks fit the drive, and the size of the disk image
\* ------------------------------------------------------------------------
Max(a, b) == IF a >= b THEN a ELSE b
Min(a, b) == IF a <= b THEN a ELSE b

\* constants.MAX_DRIVE_SIZE, the capacity of the 1 GB drive; sizes are
\* counted in units of 10^6 bytes
MAX_DRIVE_SIZE == 1000

\* Master.calculate_encoding_for_1gb: MIN_BITRATE
MIN_BITRATE == 32

\* MasterDraft.calculate_encoding_for_drive_limit: min_reasonable_bitrate
min_reasonable_bitrate == 32000

RECURSIVE GCD(_, _)
GCD(a, b) == IF b = 0 THEN a ELSE GCD(b, a % b)

IsPowerOfTwo(n) == \E k \in 0..30 : n = 2^k

\* int(x * (m / d)) in floating point, for positive integers: the quotient
\* m / d is rounded unless d / gcd(m, d) is a power of two, so that a product
\* that is an integer in exact arithmetic may come out just under it
IntOfScaled(x, m, d) ==
  LET q == (x * m) \div d
  IN IF (x * m) % d = 0 /\ q > 0 /\ ~IsPowerOfTwo(d \div GCD(m, d))
       THEN {q - 1, q}
       ELSE {q}

\* Master.calculate_encoding_for_1gb, from the projected size of the input
\* tracks and the configured bit rate: the rates it may return
calculate_encoding_for_1gb(current_size_bytes, current_bit_rate) ==
  IF current_size_bytes <= MAX_DRIVE_SIZE THEN {current_bit_rate}
  ELSE {Max(MIN_BITRATE, Min(required_bit_rate, current_bit_rate)) :
          required_bit_rate \in IntOfScaled(current_bit_rate, MAX_DRIVE_SIZE, current_size_bytes)}

\* MasterDraft.calculate_encoding_for_drive_limit, with max_drive_size
\* configured as the same capacity
calculate_encoding_for_drive_limit(current_size_bytes, current_bit_rate) ==
  IF current_size_bytes <= MAX_DRIVE_SIZE THEN {current_bit_rate}
  ELSE {Max(min_reasonable_bitrate, Min(required_bit_rate, current_bit_rate)) :
          required_bit_rate \in IntOfScaled(current_bit_rate, MAX_DRIVE_SIZE, current_size_bytes)}

\* DiskImage.create_disk_image: image_size_mb from du's kilobytes, without the floor
image_size_mb_unfloored(source_size_kb) ==
  LET buffer_kb == Max(source_size_kb \div 20, 5 * 1024)
  IN (source_size_kb + buffer_kb + 1023) \div 1024

\* DiskImage.create_disk_image: image_size_mb from du's kilobytes
image_size_mb(source_size_kb) ==
  LET buffer_kb == Max(source_size_kb \div 20, 5 * 1024)
  IN Max((source_size_kb + buffer_kb + 1023) \div 1024, 10)

\* projected sizes of the input tracks, in units of 10^6 bytes
ProjectedSizes ==
  {0, 500, 949, 950, 951, 970, 1000, 1001, 1050, 1500, 2000, 3000, 3001, 6000}

\* configured bit rates, in bit/s
BitRates == {32000, 64000, 96000, 192000}

\* what du -sk reports for the master root
SourceSizes ==
  {0, 1, 2048, 5119, 5120, 5121, 6000, 102399, 102400, 102401, 103376,
   104351, 200000, 1000000}

BitRateFns == {"calculate_encoding_for_1gb", "calculate_encoding_for_drive_limit"}

CalcInputs ==
  {[fn |-> f, size |-> sz, rate |-> r, out |-> 0, done |-> FALSE] :
     f \in BitRateFns, sz \in ProjectedSizes, r \in BitRates}
  \cup {[fn |-> "image_size_mb", size |-> kb, rate |-> 0, out |-> 0, done |-> FALSE] :
          kb \in SourceSizes}

InitCalc ==
  /\ PipelineIdle
  /\ DevicesIdle
  /\ HashIdle
  /\ ImgIdle
  /\ VldIdle
  /\ calc \in CalcInputs

\* Master.calculate_encoding_for_1gb returns
SelectBitRateFor1Gb ==
  /\ calc.fn = "calculate_encoding_for_1gb"
  /\ ~calc.done
  /\ \E r \in calculate_encoding_for_1gb(calc.size, calc.rate) :
       calc' = [calc EXCEPT !.out = r, !.done = TRUE]
  /\ UNCHANGED <<pipelineVars, devVars, hashVars, img, vld>>

\* MasterDraft.calculate_encoding_for_drive_limit returns
SelectBitRateForDriveLimit ==
  /\ calc.fn = "calculate_encoding_for_drive_limit"
  /\ ~calc.done
  /\ \E r \in calculate_encoding_for_drive_limit(calc.size, calc.rate) :
       calc' = [calc EXCEPT !.out = r, !.done = TRUE]
  /\ UNCHANGED <<pipelineVars, devVars, hashVars, img, vld>>

\* create_disk_image has measured the master root and sizes the image
SizeDiskImage ==
  /\ calc.fn = "image_size_mb"
  /\ ~calc.done
  /\ calc' = [calc EXCEPT !.out = image_size_mb(calc.size), !.done = TRUE]
  /\ UNCHANGED <<pipelineVars, devVars, hashVars, img, vld>>

NextCalc ==
  \/ SelectBitRateFor1Gb
  \/ SelectBitRateForDriveLimit
  \/ SizeDiskImage

SpecCalc == InitCalc /\ [][NextCalc]_vars

\* ------------------------------------------------------------------------
\* DiskImage.create_disk_image (models/diskimage.py) on its own
\* ------------------------------------------------------------------------
\* top-level folders and files of the master root copied into the image
MaxImageDirs == 2
MaxImageFiles == 2

\* what an external tool writes to stderr when it returns non-zero
ToolStderrs == {"Disk full", "File exists"}

NoError == [type |-> "none", text |-> "", stderr |-> ""]
RuntimeError(text_, stderr_) == [type |-> "RuntimeError", text |-> text_, stderr |-> stderr_]

\* the state at the call of create_disk_image(master_root, sku)
ImageInputs ==
  [pc : {"start"}, root : BOOLEAN, final0 : {"absent", "old"},
   dirs : 0..MaxImageDirs, files : 0..MaxImageFiles]

ImageCall(in) ==
  [pc |-> "start", root |-> in.root, final0 |-> in.final0, final |-> in.final0,
   staged |-> "absent", dirs |-> in.dirs, files |-> in.files,
   made |-> 0, copied |-> 0, tool |-> "none", rc |-> 0, stderr |-> "",
   error |-> NoError, via |-> "none", returned |-> FALSE]

InitImage ==
  /\ PipelineIdle
  /\ DevicesIdle
  /\ HashIdle
  /\ CalcIdle
  /\ VldIdle
  /\ img \in {ImageCall(in) : in \in ImageInputs}

imgRest == <<pipelineVars, devVars, hashVars, calc, vld>>

\* an exception leaves the TemporaryDirectory block: the staged file goes
ImageRaise(e) == [img EXCEPT !.pc = "raised", !.error = e, !.staged = "absent"]

\* master_root does not exist
ImageRootMissing ==
  /\ img.pc = "start"
  /\ ~img.root
  /\ img' = [img EXCEPT !.pc = "raised", !.error = RuntimeError("root missing", "")]
  /\ UNCHANGED imgRest

\* du -sk, then the blank raw image is created in the temporary directory
ImageStage ==
  /\ img.pc = "start"
  /\ img.root
  /\ img' = [img EXCEPT !.pc = "format", !.staged = "blank"]
  /\ UNCHANGED imgRest

\* mkfs.vfat returns 0
FormatDiskImage ==
  /\ img.pc = "format"
  /\ img' = [img EXCEPT !.pc = "copy", !.staged = "formatted",
                        !.tool = "mkfs.vfat", !.rc = 0, !.stderr = ""]
  /\ UNCHANGED imgRest

\* mkfs.vfat returns non-zero, and is taken for a success
FormatDiskImageUnchecked ==
  /\ img.pc = "format"
  /\ \E err \in ToolStderrs :
       img' = [img EXCEPT !.pc = "copy", !.staged = "formatted",
                          !.tool = "mkfs.vfat", !.rc = 1, !.stderr = err]
  /\ UNCHANGED imgRest

\* mkfs.vfat returns non-zero
FormatDiskImageFails ==
  /\ img.pc = "format"
  /\ \E err \in ToolStderrs :
       img' = [ImageRaise(RuntimeError("Error formatting disk image", err))
                 EXCEPT !.tool = "mkfs.vfat", !.rc = 1, !.stderr = err]
  /\ UNCHANGED imgRest

\* mmd returns 0 for the next top-level folder
Mmd ==
  /\ img.pc = "copy"
  /\ img.made < img.dirs
  /\ img' = [img EXCEPT !.made = @ + 1, !.tool = "mmd", !.rc = 0, !.stderr = ""]
  /\ UNCHANGED imgRest

\* mmd returns non-zero and its stderr holds "File exists": the loop goes on
MmdFileExists ==
  /\ img.pc = "copy"
  /\ img.made < img.dirs
  /\ img' = [img EXCEPT !.made = @ + 1, !.tool = "mmd", !.rc = 1,
                        !.stderr = "File exists"]
  /\ UNCHANGED imgRest

\* mmd returns non-zero with another stderr
MmdFails ==
  /\ img.pc = "copy"
  /\ img.made < img.dirs
  /\ \E err \in ToolStderrs \ {"File exists"} :
       img' = [ImageRaise(RuntimeError("Error creating directory", err))
                 EXCEPT !.tool = "mmd", !.rc = 1, !.stderr = err]
  /\ UNCHANGED imgRest

\* mcopy returns 0 for the next file
Mcopy ==
  /\ img.pc = "copy"
  /\ img.made = img.dirs
  /\ img.copied < img.files
  /\ img' = [img EXCEPT !.copied = @ + 1, !.tool = "mcopy", !.rc = 0, !.stderr = ""]
  /\ UNCHANGED imgRest

\* mcopy returns non-zero
McopyFails ==
  /\ img.pc = "copy"
  /\ img.made = img.dirs
  /\ img.copied < img.files
  /\ \E err \in ToolStderrs :
       img' = [ImageRaise(RuntimeError("Error copying to disk image", err))
                 EXCEPT !.tool = "mcopy", !.rc = 1, !.stderr = err]
  /\ UNCHANGED imgRest

\* claim_unique_slot_and_log on the staged image
ClaimSlot ==
  /\ img.pc = "copy"
  /\ img.made = img.dirs
  /\ img.copied = img.files
  /\ img' = [img EXCEPT !.pc = "publish"]
  /\ UNCHANGED imgRest

\* claim_unique_slot_and_log raises (registry unreachable, mtools failure)
ClaimSlotFails ==
  /\ img.pc = "copy"
  /\ img.made = img.dirs
  /\ img.copied = img.files
  /\ img' = ImageRaise(RuntimeError("registry", ""))
  /\ UNCHANGED imgRest

\* os.replace(staging, image_path) succeeds
PublishReplace ==
  /\ img.pc = "publish"
  /\ img' = [img EXCEPT !.pc = "lock", !.final = "new", !.staged = "absent",
                        !.via = "os.replace"]
  /\ UNCHANGED imgRest

\* os.replace raises OSError, shutil.copy2 writes the whole image
PublishCopy ==
  /\ img.pc = "publish"
  /\ img' = [img EXCEPT !.pc = "lock", !.final = "new", !.staged = "absent",
                        !.via = "shutil.copy2"]
  /\ UNCHANGED imgRest

\* os.replace raises OSError and shutil.copy2 raises too, before or while
\* it writes image_path
PublishCopyFails ==
  /\ img.pc = "publish"
  /\ \E f \in {img.final, "partial"} :
       img' = [ImageRaise([type |-> "OSError", text |-> "copy2", stderr |-> ""])
                 EXCEPT !.final = f, !.via = "shutil.copy2"]
  /\ UNCHANGED imgRest

\* _lock_readonly, os.path.getsize, return str(image_path)
ImageReturn ==
  /\ img.pc = "lock"
  /\ img' = [img EXCEPT !.pc = "returned", !.returned = TRUE]
  /\ UNCHANGED imgRest

NextImage ==
  \/ ImageRootMissing
  \/ ImageStage
  \/ FormatDiskImage
  \/ FormatDiskImageFails
  \/ Mmd
  \/ MmdFileExists
  \/ MmdFails
  \/ Mcopy
  \/ McopyFails
  \/ ClaimSlot
  \/ ClaimSlotFails
  \/ PublishReplace
  \/ PublishCopy
  \/ PublishCopyFails
  \/ ImageReturn

SpecImage == InitImage /\ [][NextImage]_vars

\* ------------------------------------------------------------------------
\* MasterValidator.validate (utils/master_validator.py) on its own
\* ------------------------------------------------------------------------
\* validate calls made on one validator
MaxValidations == 2

\* a symbolic link: is_dir() follows it, os.walk does not descend into it
LinkEntry(isdir, target) == [dir |-> isdir, data |-> target, link |-> TRUE]
IsLink(e) == "link" \in DOMAIN e

\* p and everything below it
Subtree(tree, p) == {q \in Paths(tree) : q = p \/ IsPrefix(p \o Sep, q)}

\* MasterValidator._delete_paths: denied tells whether the operating system
\* refuses the removals; shutil.rmtree always refuses a link to a directory
DeleteFails(tree, paths, denied) ==
  {p \in paths : denied \/ (IsLink(tree[p]) /\ tree[p].dir)}

DeletePaths(tree, paths, denied) ==
  LET removed == paths \ DeleteFails(tree, paths, denied)
  IN Without(tree, UNION {Subtree(tree, p) : p \in removed})

\* MasterValidator._system_files: the tree it leaves, what it appends
SystemFiles(tree, fix_system_files, denied) ==
  LET system_paths == ScanSystemArtifacts(tree)
  IN IF system_paths = {} \/ ~fix_system_files
       THEN [tree |-> tree, errors |-> SystemFilesErrors(tree),
             warnings |-> SystemFilesWarnings(tree)]
     ELSE LET fails == DeleteFails(tree, system_paths, denied)
          IN [tree |-> DeletePaths(tree, system_paths, denied),
              errors |-> IF fails # {} THEN <<"remove_failed">> ELSE <<>>,
              warnings |-> IF system_paths \ fails # {} THEN <<"removed">> ELSE <<>>]

\* MasterValidator._check_root_exists
CheckRootExists(exists) == IF exists THEN <<>> ELSE <<"root_missing">>

\* the checks of validate, run one after the other, but given up at the
\* first one that appends an error
RunChecksUntilError(tree, exists, expected, master_isbn, fix_system_files, denied) ==
  LET sf == SystemFiles(tree, fix_system_files, denied)
      rest == <<CheckRootExists(exists), MetadataErrors(sf.tree),
                CheckTracksFolder(sf.tree),
                CheckBookinfoId(sf.tree, expected, master_isbn)>>
      firstErr == {k \in 1..4 : Len(rest[k]) > 0 /\ \A j \in 1..(k - 1) : Len(rest[j]) = 0}
  IN [tree |-> sf.tree,
      errors |-> IF Len(sf.errors) > 0 THEN sf.errors
                 ELSE IF firstErr = {} THEN <<>>
                 ELSE rest[CHOOSE k \in firstErr : TRUE],
      warnings |-> sf.warnings
                   \o (IF Len(sf.errors) = 0 /\ exists THEN MetadataWarnings(sf.tree) ELSE <<>>)]

\* the checks of validate, lines 91-95, each run whatever the others found
RunChecks(tree, exists, expected, master_isbn, fix_system_files, denied) ==
  LET sf == SystemFiles(tree, fix_system_files, denied)
  IN [tree |-> sf.tree,
      errors |-> sf.errors \o CheckRootExists(exists) \o MetadataErrors(sf.tree)
                 \o CheckTracksFolder(sf.tree)
                 \o CheckBookinfoId(sf.tree, expected, master_isbn),
      warnings |-> sf.warnings \o MetadataWarnings(sf.tree)]

\* self.errors and self.warnings left as the last call filled them
ListsKept(v) ==
  [errors |-> v.errors, warnings |-> v.warnings]

\* self.errors.clear(); self.warnings.clear()
ListsCleared(v) ==
  [errors |-> <<>>, warnings |-> <<>>]

\* ValidationResult(ok=not self.errors, errors=tuple(...), warnings=tuple(...))
ValidationResult(errors_, warnings_) ==
  [ok |-> Len(errors_) = 0, errors |-> errors_, warnings |-> warnings_]

NoResult == [ok |-> FALSE, errors |-> <<"none">>, warnings |-> <<"none">>]

\* the roots handed to the validator
TrackA == tracks_path \o Sep \o <<"1", ".", "m", "p", "3">>
TrackB == tracks_path \o Sep \o <<"2", ".", "m", "p", "3">>
DSStore == <<".", "D", "S", "_", "S", "t", "o", "r", "e">>
AppleDouble == <<".", "_", "1", ".", "m", "p", "3">>
Trashes == <<".", "T", "r", "a", "s", "h", "e", "s">>
TrashedFile == Trashes \o Sep \o <<"k", ".", "t", "x", "t">>
DotLink == <<".", "o", "u", "t">>
OutsideDir == <<".", ".", "/", "o", "u", "t">>
OutsideFile == OutsideDir \o Sep \o <<"k", ".", "t", "x", "t">>
OutsideTree == Put(Put(EmptyTree, OutsideDir, DirEntry), OutsideFile, FileEntry(<<"k">>))

ValidatorIsbn == <<"9", "7">>
OtherIsbn == <<"9", "8">>

RootChoices ==
  {c \in [tracks : {"none", "two"},
          id : {"nodir", "none", "empty", "same", "other"},
          count : {"none", "2"},
          sentinel : {"none", "file"},
          clutter : {"none", "ds_store", "appledouble", "trashes", "link"},
          checksum : {"none", "built"}] :
     /\ c.id = "nodir" => c.count = "none"
     /\ c.count = "none" => c.clutter = "none"
     /\ c.checksum = "built" => (c.id = "same" /\ c.count = "2" /\ c.tracks = "two")
     /\ c.clutter = "appledouble" => c.tracks # "none"}

\* what Master.create_master_structure stores in checksum.txt: the digest
\* of the skeleton it has written by then
BuiltChecksum ==
  checksum(TRUE, Put(Put(Put(Put(Put(Put(EmptyTree, tracks_path, DirEntry), info_path, DirEntry),
                     metadata_file, FileEntry(<<>>)), checksum_file, FileEntry(<<>>)),
                     id_file, FileEntry(ValidatorIsbn)), count_file, FileEntry(<<"2">>)))

BuildRoot(c) ==
  LET t1 == IF c.tracks = "none" THEN EmptyTree
            ELSE LET d == Put(Put(EmptyTree, tracks_path, DirEntry), TrackA, FileEntry(<<"a">>))
                 IN IF c.tracks = "two" THEN Put(d, TrackB, FileEntry(<<"b">>)) ELSE d
      t2 == IF c.id = "nodir" THEN t1
            ELSE LET d == Put(t1, info_path, DirEntry)
                 IN IF c.id = "none" THEN d
                    ELSE Put(d, id_file, FileEntry(
                           CASE c.id = "empty" -> <<" ">>
                             [] c.id = "same" -> ValidatorIsbn
                             [] OTHER -> OtherIsbn))
      t3 == IF c.count = "none" THEN t2
            ELSE Put(t2, count_file, FileEntry(<<"2">>))
      t4 == IF c.checksum = "none" THEN t3
            ELSE Put(t3, checksum_file, FileEntry(BuiltChecksum))
      t5 == IF c.sentinel = "none" THEN t4
            ELSE Put(t4, metadata_file, FileEntry(<<>>))
  IN CASE c.clutter = "none" -> t5
       [] c.clutter = "ds_store" -> Put(t5, DSStore, FileEntry(<<"s">>))
       [] c.clutter = "appledouble" ->
            Put(t5, tracks_path \o Sep \o AppleDouble, FileEntry(<<"r">>))
       [] c.clutter = "trashes" ->
            Put(Put(Put(t5, Trashes, DirEntry), TrashedFile, FileEntry(<<"k">>)),
                Trashes \o Sep \o metadata_file, FileEntry(<<>>))
       [] OTHER -> Put(t5, DotLink, LinkEntry(TRUE, OutsideDir))

\* MasterValidator.__init__: a USBDrive target has no master, a Master
\* target brings its isbn; expected_isbn is optional
ValidatorTargets ==
  {[master_isbn |-> <<>>, expected_isbn |-> <<>>],
   [master_isbn |-> <<>>, expected_isbn |-> ValidatorIsbn],
   [master_isbn |-> ValidatorIsbn, expected_isbn |-> <<>>]}

NoRoot ==
  [tracks |-> "none", id |-> "nodir", count |-> "none",
   sentinel |-> "none", clutter |-> "none", checksum |-> "none"]

ValidatorInputs ==
  [choice : RootChoices, exists : {TRUE}, target : ValidatorTargets]
  \cup [choice : {NoRoot}, exists : {FALSE}, target : ValidatorTargets]

NewValidator(in) ==
  [pc |-> "ready", master_isbn |-> in.target.master_isbn,
   expected_isbn |-> in.target.expected_isbn,
   exists |-> in.exists, root |-> BuildRoot(in.choice), before |-> BuildRoot(in.choice),
   outside |-> OutsideTree, errors |-> <<>>, warnings |-> <<>>,
   result |-> NoResult, prev |-> NoResult, fix |-> FALSE, denied |-> FALSE, n |-> 0]

InitValidate ==
  /\ PipelineIdle
  /\ DevicesIdle
  /\ HashIdle
  /\ CalcIdle
  /\ ImgIdle
  /\ vld \in {NewValidator(in) : in \in ValidatorInputs}

vldRest == <<pipelineVars, devVars, hashVars, calc, img>>

\* MasterValidator.validate(fix_system_files=...) as a whole
ValidateCall(fix_system_files, denied) ==
  LET lists == ListsCleared(vld)
      run == RunChecks(vld.root, vld.exists, vld.expected_isbn, vld.master_isbn,
                       fix_system_files, denied)
      errors == lists.errors \o run.errors
      warnings == lists.warnings \o run.warnings
  IN vld' = [vld EXCEPT !.pc = "validated", !.before = vld.root, !.root = run.tree,
                        !.errors = errors, !.warnings = warnings,
                        !.result = ValidationResult(errors, warnings),
                        !.prev = vld.result,
                        !.fix = fix_system_files, !.denied = denied, !.n = @ + 1]

\* validate()
Validate ==
  /\ vld.pc \in {"ready", "validated"}
  /\ vld.n < MaxValidations
  /\ ValidateCall(FALSE, FALSE)
  /\ UNCHANGED vldRest

\* validate(fix_system_files=True)
ValidateFix ==
  /\ vld.pc \in {"ready", "validated"}
  /\ vld.n < MaxValidations
  /\ ValidateCall(TRUE, FALSE)
  /\ UNCHANGED vldRest

\* validate(fix_system_files=True) on a root that refuses removals
ValidateFixDenied ==
  /\ vld.pc \in {"ready", "validated"}
  /\ vld.n < MaxValidations
  /\ ScanSystemArtifacts(vld.root) # {}
  /\ ValidateCall(TRUE, TRUE)
  /\ UNCHANGED vldRest

\* between two calls the operator repairs the root by hand: tracks, id.txt
\* and count.txt of a full master
RepairRoot ==
  /\ vld.pc = "validated"
  /\ vld.n < MaxValidations
  /\ ~vld.result.ok
  /\ vld' = [vld EXCEPT !.pc = "ready", !.exists = TRUE,
               !.root = BuildRoot([tracks |-> "two", id |-> "same", count |-> "2",
                                   sentinel |-> "none", clutter |-> "none",
                                   checksum |-> "none"])]
  /\ UNCHANGED vldRest

NextValidate ==
  \/ Validate
  \/ ValidateFix
  \/ ValidateFixDenied
  \/ RepairRoot

SpecValidate == InitValidate /\ [][NextValidate]_vars

\* ------------------------------------------------------------------------
\* Track.status / Track.is_valid (models/track.py) and the metadata
\* accessors of Tracks (models/tracks.py) on their own.  An optional number
\* is <<>> for None and <<n>> for the number n.
\* ------------------------------------------------------------------------
\* tracks held by the collection whose accessor is read
MaxTracksHeld == 3

NoNumber == <<>>
Num(n) == <<n>>

\* params["encoding"]["target_lufs"]
target_lufs == -19

Abs(n) == IF n < 0 THEN 0 - n ELSE n

\* Track.loudness_is_close_to_target: deviation <= abs(target_lufs) * 0.05
loudness_is_close_to_target(t) ==
  \/ t.loudness = NoNumber
  \/ 20 * Abs(t.loudness[1] - target_lufs) <= Abs(target_lufs)

\* Track.encoding_is_valid
encoding_is_valid(t) ==
  /\ t.sample_rate # NoNumber /\ t.sample_rate[1] > 0
  /\ t.bit_rate # NoNumber /\ t.bit_rate[1] > 0
  /\ t.channels = Num(1)
  /\ ("loudness" \in t.tests =>
        (t.loudness # NoNumber /\ -40 < t.loudness[1] /\ t.loudness[1] < 0))

\* Track.status: the issues found, or the TypeError of None > 0
TrackStatus(t) ==
  IF t.frame_errors = NoNumber
    THEN [raised |-> TRUE, valid |-> FALSE, issues |-> <<>>]
  ELSE LET issues ==
             (IF t.silences = "some" THEN <<"Silence">> ELSE <<>>)
             \o (IF t.frame_errors[1] > 0 THEN <<"Frame errors">> ELSE <<>>)
             \o (IF ~encoding_is_valid(t) THEN <<"Encoding issue">> ELSE <<>>)
             \o (IF ~loudness_is_close_to_target(t) THEN <<"Loudness issue">> ELSE <<>>)
       IN [raised |-> FALSE, valid |-> issues = <<>>, issues |-> issues]

\* the accessor returns the first value a track carries
FirstValue(values) ==
  LET set == {k \in DOMAIN values : values[k] # None /\ values[k] # <<>>}
  IN IF set = {} THEN [raised |-> FALSE, value |-> None]
     ELSE [raised |-> FALSE, value |-> values[CHOOSE k \in set : \A j \in set : k <= j]]

\* Tracks.isbn / Tracks.title / Tracks.author over the values of the tracks
CommonValue(values) ==
  LET set == {v \in Range(values) : v # None /\ v # <<>>}
  IN IF Cardinality(set) = 1 THEN [raised |-> FALSE, value |-> CHOOSE v \in set : TRUE]
     ELSE IF Cardinality(set) > 1 THEN [raised |-> TRUE, value |-> None]
     ELSE [raised |-> FALSE, value |-> None]

\* the attributes Track.__init__ takes from analyze_track: a probe that was
\* not requested leaves None
TrackInputs ==
  {t \in [fn : {"status"},
          tests : SUBSET {"loudness", "frame_errors"},
          silences : {"None", "empty", "some"},
          frame_errors : {NoNumber, Num(-1), Num(0), Num(2)},
          isbn : {<<>>, <<"9", "7">>},
          sample_rate : {NoNumber, Num(0), Num(44100)},
          bit_rate : {NoNumber, Num(96000)},
          channels : {NoNumber, Num(1), Num(2)},
          loudness : {NoNumber, Num(-19), Num(-30), Num(-50)},
          out : {<<>>}, done : {FALSE}] :
     /\ t.loudness # NoNumber => "loudness" \in t.tests
     /\ t.frame_errors # NoNumber => "frame_errors" \in t.tests}

FieldValues == {None, <<>>, <<"x">>, <<"y">>}

AccessorInputs ==
  {[fn |-> f, values |-> vs, out |-> <<>>, done |-> FALSE] :
     f \in {"isbn", "title", "author"},
     vs \in UNION {[1..n -> FieldValues] : n \in 1..MaxTracksHeld}}

\* the folders a collection is loaded from: audio files, files without
\* duration, files whose Track construction raises, and a file that is no
\* audio file by its name
LoadNames == Range(InputNames) \cup {<<"n", ".", "t", "x", "t">>, AppleDouble}

LoadDirs ==
  {[n \in DOMAIN k |-> <<k[n]>> \o n] :
     k \in UNION {[S -> InputKinds] : S \in SUBSET LoadNames}}

LoadInputs ==
  {[fn |-> "load", exists |-> e, dir |-> d, out |-> <<>>, done |-> FALSE] :
     e \in BOOLEAN, d \in LoadDirs}

\* Tracks(master, directory, ...): the collection, or the ValueError
NewTracks(exists, dir, isbn_, sku_) ==
  IF ~exists \/ TracksRaises(dir, isbn_, sku_)
    THEN [raised |-> TRUE, files |-> <<>>]
  ELSE [raised |-> FALSE, files |-> Tracks(dir, isbn_, sku_).files]

\* what Track.__init__ meets: the tests asked for, what ffprobe says of the
\* file ("fail": extract_metadata raises) and what each probe would return
ConstructInputs ==
  [fn : {"construct"},
   tests : SUBSET {"loudness", "silence", "frame_errors"},
   meta : {"fail", "mp3", "wav", "other"},
   loud : {NoNumber, Num(-19)},
   sil : {"None", "empty"},
   fe : {Num(-1), Num(0), Num(2)},
   out : {<<>>}, done : {FALSE}]

\* analyze_track: the results dictionary starts as loudness {}, silences [],
\* frame_errors None; a failed metadata extraction returns it as it is, and
\* each requested probe runs only for the formats it supports.
\* detect_silence returns None when ffmpeg ran (capture_stderr=False leaves
\* result[1] None) and [] when it raised; check_frame_errors returns -1 when
\* ffmpeg raised
analyze_track(in) ==
  [metadata |-> in.meta # "fail",
   loudness |-> IF in.meta = "mp3" /\ "loudness" \in in.tests THEN in.loud ELSE NoNumber,
   silences |-> IF in.meta \in {"mp3", "wav"} /\ "silence" \in in.tests THEN in.sil ELSE "empty",
   frame_errors |-> IF in.meta = "mp3" /\ "frame_errors" \in in.tests THEN in.fe ELSE NoNumber]

\* Track.__init__: the attributes taken from the analysis; the key
\* "frame_errors" is always in the dictionary, so the default 0 of
\* track_analysis.get("frame_errors", 0) is never used
NewTrack(in) ==
  LET a == analyze_track(in)
  IN [tests |-> in.tests,
      sample_rate |-> IF a.metadata THEN Num(44100) ELSE NoNumber,
      bit_rate |-> IF a.metadata THEN Num(96000) ELSE NoNumber,
      channels |-> IF a.metadata THEN Num(1) ELSE NoNumber,
      loudness |-> a.loudness,
      silences |-> a.silences,
      frame_errors |-> a.frame_errors]

InitTrack ==
  /\ PipelineIdle
  /\ DevicesIdle
  /\ HashIdle
  /\ ImgIdle
  /\ VldIdle
  /\ calc \in TrackInputs \cup AccessorInputs \cup LoadInputs \cup ConstructInputs

calcRest == <<pipelineVars, devVars, hashVars, img, vld>>

\* track.is_valid is read
ReadIsValid ==
  /\ calc.fn = "status"
  /\ ~calc.done
  /\ calc' = [calc EXCEPT !.out = TrackStatus(calc), !.done = TRUE]
  /\ UNCHANGED calcRest

\* tracks.isbn is read
ReadIsbn ==
  /\ calc.fn = "isbn"
  /\ ~calc.done
  /\ calc' = [calc EXCEPT !.out = CommonValue(calc.values), !.done = TRUE]
  /\ UNCHANGED calcRest

\* tracks.title is read
ReadTitle ==
  /\ calc.fn = "title"
  /\ ~calc.done
  /\ calc' = [calc EXCEPT !.out = CommonValue(calc.values), !.done = TRUE]
  /\ UNCHANGED calcRest

\* tracks.author is read
ReadAuthor ==
  /\ calc.fn = "author"
  /\ ~calc.done
  /\ calc' = [calc EXCEPT !.out = CommonValue(calc.values), !.done = TRUE]
  /\ UNCHANGED calcRest

\* Tracks(master, directory, params, tests) is constructed
LoadCollection ==
  /\ calc.fn = "load"
  /\ ~calc.done
  /\ calc' = [calc EXCEPT !.out = NewTracks(calc.exists, IF calc.exists THEN calc.dir ELSE <<>>,
                                             <<"9", "7">>, <<"B", "-", "a">>),
                           !.done = TRUE]
  /\ UNCHANGED calcRest

\* Track(file, index, params, tests) is constructed and is_valid is read
ConstructTrack ==
  /\ calc.fn = "construct"
  /\ ~calc.done
  /\ calc' = [calc EXCEPT !.out = [track |-> NewTrack(calc),
                                   status |-> TrackStatus(NewTrack(calc))],
                          !.done = TRUE]
  /\ UNCHANGED calcRest

NextTrack ==
  \/ LoadCollection
  \/ ConstructTrack
  \/ ReadIsValid
  \/ ReadIsbn
  \/ ReadTitle
  \/ ReadAuthor

SpecTrack == InitTrack /\ [][NextTrack]_vars

\* ------------------------------------------------------------------------
\* DiskImage.copy_files_to_image over the entries of the master root
\* (models/diskimage.py)
\* ------------------------------------------------------------------------
\* at most this many foreign entries lie in the master root
MaxForeign == 2

fseventsd == <<".", "f", "s", "e", "v", "e", "n", "t", "s", "d">>
TmpSuffix == <<".", "t", "m", "p">>

\* the patterns of exclude_patterns that hold no wildcard
exclude_names ==
  { fseventsd,
    Trashes,
    <<".", "T", "e", "m", "p", "o", "r", "a", "r", "y", "I", "t", "e", "m", "s">>,
    <<".", "S", "p", "o", "t", "l", "i", "g", "h", "t", "-", "V", "1", "0", "0">>,
    <<".", "D", "o", "c", "u", "m", "e", "n", "t", "R", "e", "v", "i", "s", "i",
      "o", "n", "s", "-", "V", "1", "0", "0">>,
    <<"S", "y", "s", "t", "e", "m", " ", "V", "o", "l", "u", "m", "e", " ",
      "I", "n", "f", "o", "r", "m", "a", "t", "i", "o", "n">> }

\* fnmatch.fnmatchcase(s, pattern) for some pattern of exclude_patterns:
\* "._*", "*.DS_Store", "*.tmp" and the literal names; "*" matches any run
\* of characters, "/" included
matches_exclude(s) ==
  \/ StartsWith(s, <<".", "_">>)
  \/ EndsWith(s, DSStore)
  \/ EndsWith(s, TmpSuffix)
  \/ s \in exclude_names

\* is_excluded(path): the relative path or the name matches a pattern
is_excluded(p) ==
  matches_exclude(p) \/ matches_exclude(BaseName(p))

\* comparison of two sequences of strings, as Python compares the parts of
\* two Path objects
RECURSIVE PartsCmp(_, _)
PartsCmp(a, b) ==
  IF a = <<>> THEN (IF b = <<>> THEN 0 ELSE -1)
  ELSE IF b = <<>> THEN 1
  ELSE IF StrCmp(Head(a), Head(b)) # 0 THEN StrCmp(Head(a), Head(b))
  ELSE PartsCmp(Tail(a), Tail(b))

\* sorted(paths) of Path objects
RECURSIVE SortedPaths(_)
SortedPaths(S) ==
  IF S = {} THEN <<>>
  ELSE LET m == CHOOSE q \in S : \A r \in S : PartsCmp(Split(q), Split(r)) <= 0
       IN <<m>> \o SortedPaths(S \ {m})

\* sorted(source_folder.glob("*/")): the directories directly in the root
TopFolders(tree) ==
  SortedPaths({q \in Children(tree, <<>>) : tree[q].dir})

\* the files the second loop hands to mcopy
FilesToCopy(tree) ==
  SelectSeq(SortedPaths(Paths(tree)), LAMBDA q : ~tree[q].dir /\ ~is_excluded(q))

\* the master root create_master_structure builds, with one track
CleanRoot ==
  Put(Put(Put(Put(Put(EmptyTree, tracks_path, DirEntry), TrackA, FileEntry(<<"a">>)),
              info_path, DirEntry), id_file, FileEntry(ValidatorIsbn)),
      metadata_file, FileEntry(<<>>))

NestedDir == tracks_path \o Sep \o <<"c", "d", "1">>
NestedFile == NestedDir \o Sep \o <<"2", ".", "m", "p", "3">>

\* what the operating system or a user may add to the master root
ForeignEntries ==
  { Put(EmptyTree, DSStore, FileEntry(<<"d">>)),
    Put(EmptyTree, tracks_path \o Sep \o AppleDouble, FileEntry(<<"r">>)),
    Put(EmptyTree, tracks_path \o Sep \o <<"a">> \o TmpSuffix, FileEntry(<<"t">>)),
    Put(Put(EmptyTree, Trashes, DirEntry), TrashedFile, FileEntry(<<"k">>)),
    Put(EmptyTree, fseventsd, DirEntry),
    Put(Put(EmptyTree, NestedDir, DirEntry), NestedFile, FileEntry(<<"b">>)) }

RECURSIVE Overlay(_, _)
Overlay(tree, adds) ==
  IF adds = {} THEN tree
  ELSE LET a == CHOOSE x \in adds : TRUE
           t == [q \in Paths(tree) \cup Paths(a) |->
                   IF q \in Paths(a) THEN a[q] ELSE tree[q]]
       IN Overlay(t, adds \ {a})

\* the state at the call of copy_files_to_image(image_path, source_folder)
\* on a freshly formatted image
CopyInputs ==
  { [pc |-> "copying", source |-> Overlay(CleanRoot, adds), image |-> EmptyTree,
     folders |-> TopFolders(Overlay(CleanRoot, adds)),
     files |-> FilesToCopy(Overlay(CleanRoot, adds)),
     error |-> NoError] :
    adds \in {A \in SUBSET ForeignEntries : Cardinality(A) <= MaxForeign} }

InitCopy ==
  /\ PipelineIdle
  /\ DevicesIdle
  /\ HashIdle
  /\ CalcIdle
  /\ VldIdle
  /\ img \in CopyInputs

\* mmd -i image ::folder for the next top-level folder
CopyMmd ==
  /\ img.pc = "copying"
  /\ img.folders # <<>>
  /\ img' = [img EXCEPT !.image = Put(@, Head(img.folders), DirEntry),
                        !.folders = Tail(@)]
  /\ UNCHANGED imgRest

\* mmd fails with something other than "File exists"
CopyMmdFails ==
  /\ img.pc = "copying"
  /\ img.folders # <<>>
  /\ img' = [img EXCEPT !.pc = "failed",
                        !.error = RuntimeError("Error creating directory", "mmd")]
  /\ UNCHANGED imgRest

\* mcopy -i image file ::relative_path for the next file; the target
\* directory must exist in the image
CopyMcopy ==
  /\ img.pc = "copying"
  /\ img.folders = <<>>
  /\ img.files # <<>>
  /\ LET f == Head(img.files)
     IN /\ Parent(f) = <<>> \/ Parent(f) \in Paths(img.image)
        /\ img' = [img EXCEPT !.image = Put(@, f, img.source[f]),
                              !.files = Tail(@)]
  /\ UNCHANGED imgRest

\* mcopy returns non-zero: always when the target directory is not in the
\* image, and whenever the tool fails for a reason of its own
CopyMcopyFails ==
  /\ img.pc = "copying"
  /\ img.folders = <<>>
  /\ img.files # <<>>
  /\ img' = [img EXCEPT !.pc = "failed",
                        !.error = RuntimeError("Error copying to disk image", "mcopy")]
  /\ UNCHANGED imgRest

\* both loops are through
CopyReturn ==
  /\ img.pc = "copying"
  /\ img.folders = <<>>
  /\ img.files = <<>>
  /\ img' = [img EXCEPT !.pc = "copied"]
  /\ UNCHANGED imgRest

NextCopy ==
  \/ CopyMmd
  \/ CopyMmdFails
  \/ CopyMcopy
  \/ CopyMcopyFails
  \/ CopyReturn

SpecCopy == InitCopy /\ [][NextCopy]_vars

\* ------------------------------------------------------------------------
\* the volume label of DiskImage.format_disk_image (models/diskimage.py)
\* ------------------------------------------------------------------------
\* SKUs are drawn up to this length, alone and behind a ten-character stem
MaxSkuLen == 3

SkuChars == {"b", "K", "7", "-", "_"}
SkuStem == <<"B", "O", "O", "K", "M", "A", "S", "T", "E", "R">>

ShortSkus == UNION {[1..n -> SkuChars] : n \in 0..MaxSkuLen}
LabelSkus == ShortSkus \cup {SkuStem \o s : s \in ShortSkus}

\* sku.replace("-", "").upper()[:11]
volume_label(sku_) ==
  FirstN(UpperStr(SelectSeq(sku_, LAMBDA c : c # "-")), 11)

LabelInputs ==
  {[fn |-> "label", sku |-> s, out |-> <<>>, done |-> FALSE] : s \in LabelSkus}

InitLabel ==
  /\ PipelineIdle
  /\ DevicesIdle
  /\ HashIdle
  /\ ImgIdle
  /\ VldIdle
  /\ calc \in LabelInputs

\* format_disk_image computes the label it hands to mkfs.vfat -n
FormatLabel ==
  /\ calc.fn = "label"
  /\ ~calc.done
  /\ calc' = [calc EXCEPT !.out = volume_label(calc.sku), !.done = TRUE]
  /\ UNCHANGED calcRest

NextLabel ==
  \/ FormatLabel

SpecLabel == InitLabel /\ [][NextLabel]_vars

\* ------------------------------------------------------------------------
\* remove_folder over absolute paths and symbolic links
\* (utils/file_helpers.py).  An absolute path is the sequence of its
\* components, <<>> being "/"
\* ------------------------------------------------------------------------
Dir == [kind |-> "dir", to |-> <<>>]
File == [kind |-> "file", to |-> <<>>]
Link(target) == [kind |-> "link", to |-> target]

\* what both systems hold: a home directory, the output folder /out with
\* the folders of one book, a link inside the processed folder and a link
\* in the output folder, both to /home
CommonFs ==
  (<<"home">> :> Dir) @@ (<<"home", "k.txt">> :> File)
  @@ (<<"out">> :> Dir) @@ (<<"out", "b1">> :> Dir)
  @@ (<<"out", "b1", "processed">> :> Dir)
  @@ (<<"out", "b1", "processed", "1.mp3">> :> File)
  @@ (<<"out", "b1", "processed", "l">> :> Link(<<"home">>))
  @@ (<<"out", "esc">> :> Link(<<"home">>))

\* /tmp is a directory on Linux and a link to /private/tmp on macOS
Filesystems ==
  { CommonFs @@ (<<"tmp">> :> Dir) @@ (<<"tmp", "t">> :> File),
    CommonFs @@ (<<"tmp">> :> Link(<<"private", "tmp">>))
             @@ (<<"private">> :> Dir) @@ (<<"private", "tmp">> :> Dir)
             @@ (<<"private", "tmp", "t">> :> File) }

RECURSIVE ResolveFrom(_, _, _)
\* Path.resolve(): done is resolved already, rest is still to be walked
ResolveFrom(fs, done, rest) ==
  IF rest = <<>> THEN done
  ELSE IF Head(rest) = ".."
    THEN ResolveFrom(fs, IF done = <<>> THEN <<>> ELSE SubSeq(done, 1, Len(done) - 1),
                     Tail(rest))
  ELSE LET p == Append(done, Head(rest))
       IN IF p \in DOMAIN fs /\ fs[p].kind = "link"
            THEN ResolveFrom(fs, <<>>, fs[p].to \o Tail(rest))
          ELSE ResolveFrom(fs, p, Tail(rest))

Resolve(fs, p) == ResolveFrom(fs, <<>>, p)

\* folder_path.is_relative_to(allowed_base)
is_relative_to(p, base) == IsPrefix(base, p)

\* "/", "/home", "/Users", "/root", "/var", "/tmp"
critical_paths ==
  {<<>>, <<"home">>, <<"Users">>, <<"root">>, <<"var">>, <<"tmp">>}

\* shutil.rmtree(p): p and everything below it go; a link below p is
\* unlinked, never followed
rmtree(fs, p) ==
  [q \in {r \in DOMAIN fs : ~IsPrefix(p, r)} |-> fs[q]]

\* Path.mkdir(parents=True, exist_ok=True)
mkdir_parents(fs, p) ==
  LET new == {SubSeq(p, 1, k) : k \in 1..Len(p)} \ DOMAIN fs
  IN [q \in DOMAIN fs \cup new |-> IF q \in new THEN Dir ELSE fs[q]]

RemovePaths ==
  { <<"out", "b1", "processed">>, <<"out", "b1">>, <<"out">>, <<"out", "new">>,
    <<"out", "esc">>, <<"out", "b1", "..", "..", "home">>,
    <<"out", "b1", "processed", "1.mp3">>, <<"home">>, <<"tmp">>, <<>> }

BaseFolders == {<<"out">>, <<"tmp">>, <<>>}

RemoveInputs ==
  {[fn |-> "remove", fs0 |-> f, fs |-> f, folder_path |-> p, output_folder |-> b,
    raised |-> FALSE, done |-> FALSE] :
     f \in Filesystems, p \in RemovePaths, b \in BaseFolders}

InitRemove ==
  /\ PipelineIdle
  /\ DevicesIdle
  /\ HashIdle
  /\ ImgIdle
  /\ VldIdle
  /\ calc \in RemoveInputs

\* the two guards of remove_folder
Refused(c) ==
  LET folder == Resolve(c.fs0, c.folder_path)
      allowed_base == Resolve(c.fs0, c.output_folder)
  IN ~is_relative_to(folder, allowed_base) \/ folder \in critical_paths

\* remove_folder raises ValueError: one of the guards refuses
RemoveFolderRefuses ==
  /\ calc.fn = "remove"
  /\ ~calc.done
  /\ Refused(calc)
  /\ calc' = [calc EXCEPT !.raised = TRUE, !.done = TRUE]
  /\ UNCHANGED calcRest

\* remove_folder deletes the folder if it exists and creates it again
RemoveFolder ==
  /\ calc.fn = "remove"
  /\ ~calc.done
  /\ ~Refused(calc)
  /\ LET folder == Resolve(calc.fs, calc.folder_path)
     IN /\ folder \in DOMAIN calc.fs => calc.fs[folder].kind = "dir"
        /\ calc' = [calc EXCEPT !.fs = mkdir_parents(rmtree(calc.fs, folder), folder),
                                !.done = TRUE]
  /\ UNCHANGED calcRest

\* shutil.rmtree raises: the path is a file (nothing is removed), or the
\* operating system denies a removal after the entries below the folder
\* are partly gone
RemoveFolderFails ==
  /\ calc.fn = "remove"
  /\ ~calc.done
  /\ ~Refused(calc)
  /\ LET folder == Resolve(calc.fs, calc.folder_path)
     IN /\ folder \in DOMAIN calc.fs
        /\ \E gone \in SUBSET {q \in DOMAIN calc.fs : IsPrefix(folder, q) /\ q # folder} :
             /\ calc.fs[folder].kind = "file" => gone = {}
             /\ \A q \in gone : \A r \in DOMAIN calc.fs : IsPrefix(q, r) => r \in gone
             /\ calc' = [calc EXCEPT !.fs = [q \in DOMAIN calc.fs \ gone |-> calc.fs[q]],
                                     !.raised = TRUE, !.done = TRUE]
  /\ UNCHANGED calcRest

NextRemove ==
  \/ RemoveFolderRefuses
  \/ RemoveFolder
  \/ RemoveFolderFails

SpecRemove == InitRemove /\ [][NextRemove]_vars

\* ------------------------------------------------------------------------
\* USBHub (models/usbhub.py): the monitor thread, the lock, and the threads
\* that read the hub
\* ------------------------------------------------------------------------
\* polls the monitor thread makes, changes of the mounted volumes, and calls
\* other threads make on the hub
MaxPolls == 2
MaxPlugs == 2
MaxReads == 1

Mountpoints == {"/Volumes/A", "/Volumes/B"}

\* USBDrive(mountpoint, device_path, ui_context), made in the given poll
USBDrive(mp, poll) == [mountpoint |-> mp, made |-> poll]

Keys(d) == DOMAIN d
NoDrives == <<>>

\* USBHub.__init__, with or without a callback; the volumes mounted at that
\* time are any
HubInputs ==
  {[pc |-> "wait", callback |-> cb, world |-> w,
    drives |-> NoDrives, drive_list |-> {}, lock |-> "free",
    current_drives |-> NoDrives, prev |-> {}, added |-> NoDrives, removed |-> NoDrives,
    to_add |-> {}, to_remove |-> {}, snapshot |-> NoDrives,
    polls |-> 0, plugs |-> 0, reads |-> 0, stopped |-> FALSE,
    committed |-> {}, log |-> <<>>, calls |-> <<>>,
    seen |-> [by |-> "none", value |-> {}, committed |-> {}]] :
     cb \in BOOLEAN, w \in SUBSET Mountpoints}

InitHub ==
  /\ PipelineIdle
  /\ HashIdle
  /\ CalcIdle
  /\ ImgIdle
  /\ VldIdle
  /\ TaskIdle
  /\ RegistryIdle
  /\ hub \in HubInputs

hubRest == <<pipelineVars, hashVars, calc, img, vld, task, registry>>

\* a volume is mounted or unmounted
Plug ==
  /\ hub.pc # "off"
  /\ hub.plugs < MaxPlugs
  /\ \E mp \in Mountpoints :
       hub' = [hub EXCEPT !.world = IF mp \in @ THEN @ \ {mp} ELSE @ \cup {mp},
                          !.plugs = @ + 1]
  /\ UNCHANGED hubRest

\* get_usb_drives: the partitions psutil reports, up to the point where the
\* listing raises or a device path is missing; an instance the hub holds
\* for a mountpoint is used again
PollDetect ==
  /\ hub.pc = "wait"
  /\ ~hub.stopped
  /\ hub.polls < MaxPolls
  /\ \E found \in SUBSET hub.world :
       hub' = [hub EXCEPT
                 !.pc = "detected",
                 !.polls = @ + 1,
                 !.current_drives =
                    [mp \in found |-> IF mp \in Keys(hub.drives) THEN hub.drives[mp]
                                      ELSE USBDrive(mp, hub.polls + 1)]]
  /\ UNCHANGED hubRest

\* the differences are computed with the lock not taken
PollNoLock ==
  /\ hub.pc = "detected"
  /\ LET cur == hub.current_drives
         add == [mp \in Keys(cur) \ Keys(hub.drives) |-> cur[mp]]
         rem == [mp \in Keys(hub.drives) \ Keys(cur) |-> hub.drives[mp]]
     IN hub' = [hub EXCEPT !.pc = "locked", !.prev = Keys(hub.drives),
                           !.added = add, !.removed = rem,
                           !.to_add = Keys(add), !.to_remove = Keys(rem)]
  /\ UNCHANGED hubRest

\* with self.lock: prev, added and removed are computed
PollLock ==
  /\ hub.pc = "detected"
  /\ hub.lock = "free"
  /\ LET cur == hub.current_drives
         add == [mp \in Keys(cur) \ Keys(hub.drives) |-> cur[mp]]
         rem == [mp \in Keys(hub.drives) \ Keys(cur) |-> hub.drives[mp]]
     IN hub' = [hub EXCEPT !.pc = "locked", !.lock = "monitor",
                           !.prev = Keys(hub.drives),
                           !.added = add, !.removed = rem,
                           !.to_add = Keys(add), !.to_remove = Keys(rem)]
  /\ UNCHANGED hubRest

\* nothing was added or removed: return inside the with block
PollNoChange ==
  /\ hub.pc = "locked"
  /\ Keys(hub.added) = {} /\ Keys(hub.removed) = {}
  /\ hub' = [hub EXCEPT !.pc = "wait", !.lock = "free",
                        !.committed = Keys(hub.drives),
                        !.log = Append(@, [old |-> hub.prev,
                                           new |-> Keys(hub.current_drives),
                                           called |-> FALSE])]
  /\ UNCHANGED hubRest

\* self.drives[mp] = drv for the next added drive
PollAdd ==
  /\ hub.pc = "locked"
  /\ hub.to_add # {}
  /\ \E mp \in hub.to_add :
       hub' = [hub EXCEPT !.drives = (mp :> hub.added[mp]) @@ @,
                          !.to_add = @ \ {mp}]
  /\ UNCHANGED hubRest

\* self.drives.pop(mp, None) for the next removed drive
PollRemove ==
  /\ hub.pc = "locked"
  /\ Keys(hub.added) # {} \/ Keys(hub.removed) # {}
  /\ hub.to_add = {}
  /\ hub.to_remove # {}
  /\ \E mp \in hub.to_remove :
       hub' = [hub EXCEPT !.drives = [q \in Keys(@) \ {mp} |-> @[q]],
                          !.to_remove = @ \ {mp}]
  /\ UNCHANGED hubRest

\* drive_list and snapshot are taken and the with block is left
PollRefresh ==
  /\ hub.pc = "locked"
  /\ Keys(hub.added) # {} \/ Keys(hub.removed) # {}
  /\ hub.to_add = {}
  /\ hub.to_remove = {}
  /\ hub' = [hub EXCEPT !.pc = "callback", !.lock = "free",
                        !.drive_list = Keys(hub.drives),
                        !.snapshot = hub.drives,
                        !.committed = Keys(hub.drives)]
  /\ UNCHANGED hubRest

\* the callback, if there is one, is called with the payload; what it raises
\* is logged and dropped
PollCallback ==
  /\ hub.pc = "callback"
  /\ hub' = [hub EXCEPT
               !.pc = "wait",
               !.log = Append(@, [old |-> hub.prev,
                                  new |-> Keys(hub.current_drives),
                                  called |-> hub.callback]),
               !.calls = IF hub.callback
                           THEN Append(@, [poll |-> hub.polls,
                                           added |-> hub.added,
                                           removed |-> hub.removed,
                                           snapshot |-> hub.snapshot,
                                           lock |-> hub.lock])
                         ELSE @]
  /\ UNCHANGED hubRest

\* get_snapshot() from another thread
GetSnapshot ==
  /\ hub.pc # "off"
  /\ hub.reads < MaxReads
  /\ hub.lock = "free"
  /\ hub' = [hub EXCEPT !.reads = @ + 1,
                        !.seen = [by |-> "get_snapshot", value |-> Keys(hub.drives),
                                  committed |-> hub.committed]]
  /\ UNCHANGED hubRest

\* get_drive_list() from another thread
GetDriveList ==
  /\ hub.pc # "off"
  /\ hub.reads < MaxReads
  /\ hub.lock = "free"
  /\ hub' = [hub EXCEPT !.reads = @ + 1,
                        !.seen = [by |-> "get_drive_list", value |-> hub.drive_list,
                                  committed |-> hub.committed]]
  /\ UNCHANGED hubRest

\* update_drive_list() from another thread: the list is refreshed under the
\* lock and the callback gets a payload without differences
UpdateDriveList ==
  /\ hub.pc # "off"
  /\ hub.reads < MaxReads
  /\ hub.lock = "free"
  /\ hub' = [hub EXCEPT
               !.reads = @ + 1,
               !.drive_list = Keys(hub.drives),
               !.calls = IF hub.callback
                           THEN Append(@, [poll |-> 0, added |-> NoDrives,
                                           removed |-> NoDrives,
                                           snapshot |-> hub.drives,
                                           lock |-> hub.lock])
                         ELSE @]
  /\ UNCHANGED hubRest

\* stop(): the monitor loop ends after the poll it is in
Stop ==
  /\ hub.pc # "off"
  /\ ~hub.stopped
  /\ hub' = [hub EXCEPT !.stopped = TRUE]
  /\ UNCHANGED hubRest

NextHub ==
  \/ Plug
  \/ PollDetect
  \/ PollLock
  \/ PollNoChange
  \/ PollAdd
  \/ PollRemove
  \/ PollRefresh
  \/ PollCallback
  \/ GetSnapshot
  \/ GetDriveList
  \/ UpdateDriveList
  \/ Stop

SpecHub == InitHub /\ [][NextHub]_vars

\* ------------------------------------------------------------------------
\* ImageWriteTask (models/usbdrive_writer.py): the worker thread _run, the
\* thread that reads pv's percentages, the processes pv and dd, and the
\* thread that calls cancel()
\* ------------------------------------------------------------------------
NoFile == [exists |-> FALSE, content |-> "", size |-> 0]
DataFile(c, n) == [exists |-> TRUE, content |-> c, size |-> n]

\* the image at image_path, as create_disk_image last wrote it
CurrentImage == DataFile("rebuilt", 64)

\* what an earlier write of an image of that name left in the staging
\* directory: nothing, a copy of the current image, a copy of the image
\* before it was rebuilt with the same size, or with another size
StagedBefore ==
  {NoFile, CurrentImage, DataFile("before", 64), DataFile("before", 32)}

\* ImageWriteTask(...) for an image the way _run finds it: remote says
\* _looks_remote_path, clone says _try_fast_clone succeeds, fast says
\* _is_fast_local, sized says _file_size_or_none finds a size
TaskInputs ==
  {[pc |-> "init", stop |-> FALSE, image |-> CurrentImage,
    remote |-> in.remote, clone |-> in.clone, fast |-> in.fast, sized |-> in.sized,
    tmp |-> t, cache |-> NoFile, image_src |-> "none", staged |-> FALSE,
    pv_stage |-> "none", pv |-> "none", dd |-> "none", reader |-> "none",
    device |-> "", progress |-> {}, done |-> <<>>,
    cancels |-> 0, cancelled_early |-> FALSE] :
     in \in {x \in [remote : BOOLEAN, clone : BOOLEAN, fast : BOOLEAN, sized : BOOLEAN] :
               ~x.remote => (~x.clone /\ x.fast)},
     t \in StagedBefore}

InitWrite ==
  /\ PipelineIdle
  /\ HashIdle
  /\ CalcIdle
  /\ ImgIdle
  /\ VldIdle
  /\ HubIdle
  /\ RegistryIdle
  /\ task \in TaskInputs

taskRest == <<pipelineVars, hashVars, calc, img, vld, hub, registry>>

\* self.parent.after(0, self.done_cb, ok, err); the run is over
ScheduleDone(t, ok, err) ==
  [t EXCEPT !.pc = "done", !.done = Append(@, [ok |-> ok, err |-> err])]

\* the content of the file image_src names
SourceContent(t) ==
  IF t.image_src = "cache" THEN t.cache.content
  ELSE IF t.image_src = "staged" THEN t.tmp.content
  ELSE t.image.content

\* start(): the worker thread begins _run
StartTask ==
  /\ task.pc = "init"
  /\ task' = [task EXCEPT !.pc = "unmount"]
  /\ UNCHANGED taskRest

\* cancel(): _stop is set and the processes that run are terminated
Cancel ==
  /\ task.pc # "off"
  /\ task.cancels = 0
  /\ task' = [task EXCEPT
                !.stop = TRUE,
                !.cancels = @ + 1,
                !.cancelled_early = task.dd \in {"none", "running"} /\ task.pc # "done",
                !.pv_stage = IF @ = "running" THEN "terminated" ELSE @,
                !.pv = IF @ = "running" THEN "terminated" ELSE @,
                !.dd = IF @ = "running" THEN "terminated" ELSE @]
  /\ UNCHANGED taskRest

\* _safe_unmount_whole and _ensure_exclusive_access return
Unmount ==
  /\ task.pc = "unmount"
  /\ task' = [task EXCEPT !.pc = "decide"]
  /\ UNCHANGED taskRest

\* one of them raises: except Exception schedules done_cb(False, str(e))
UnmountFails ==
  /\ task.pc = "unmount"
  /\ task' = ScheduleDone(task, FALSE, "unmount")
  /\ UNCHANGED taskRest

\* the image is local, or remote but quick to read: it is written as it is
DecideDirect ==
  /\ task.pc = "decide"
  /\ ~task.remote \/ (~task.clone /\ task.fast)
  /\ task' = [task EXCEPT !.pc = "popen", !.image_src = "image"]
  /\ UNCHANGED taskRest

\* _try_fast_clone: a stale file in the cache is removed, cp -c clones
DecideClone ==
  /\ task.pc = "decide"
  /\ task.remote /\ task.clone
  /\ task' = [task EXCEPT !.pc = "popen", !.image_src = "cache", !.staged = TRUE,
                          !.cache = task.image, !.progress = @ \cup {30}]
  /\ UNCHANGED taskRest

\* the condition under which _stage_with_pv takes the file it finds
StageReuseCond(t) ==
  t.tmp.exists /\ (~t.sized \/ t.tmp.size = t.image.size)

\* _stage_with_pv returns the file already in the staging directory
StageReuse ==
  /\ task.pc = "decide"
  /\ task.remote /\ ~task.clone /\ ~task.fast
  /\ StageReuseCond(task)
  /\ task' = [task EXCEPT !.pc = "popen", !.image_src = "staged", !.staged = TRUE,
                          !.progress = @ \cup {30}]
  /\ UNCHANGED taskRest

\* _stage_with_pv opens the destination for writing and starts pv
StageBegin ==
  /\ task.pc = "decide"
  /\ task.remote /\ ~task.clone /\ ~task.fast
  /\ ~StageReuseCond(task)
  /\ task' = [task EXCEPT !.pc = "staging", !.pv_stage = "running",
                          !.tmp = DataFile("partial", 0)]
  /\ UNCHANGED taskRest

\* pv exits with 0 and the size is right: the staged file is the source
StageFinish ==
  /\ task.pc = "staging"
  /\ task.pv_stage = "running"
  /\ task' = [task EXCEPT !.pc = "popen", !.pv_stage = "exited",
                          !.tmp = task.image, !.image_src = "staged",
                          !.staged = TRUE, !.progress = @ \cup {30}]
  /\ UNCHANGED taskRest

\* pv exits with 0 after a short copy, which the known size reveals: the
\* file is removed and the message's getsize of it raises, which except
\* Exception reports
StageShort ==
  /\ task.pc = "staging"
  /\ task.pv_stage = "running"
  /\ task.sized
  /\ task' = [ScheduleDone(task, FALSE, "FileNotFoundError")
                EXCEPT !.pv_stage = "exited", !.tmp = NoFile, !.progress = @ \cup {30}]
  /\ UNCHANGED taskRest

\* pv exits with another code, by itself or terminated by cancel()
StageFails ==
  /\ task.pc = "staging"
  /\ task.pv_stage \in {"running", "terminated"}
  /\ task' = [ScheduleDone(task, FALSE, "Staging error")
                EXCEPT !.pv_stage = "exited", !.tmp = NoFile]
  /\ UNCHANGED taskRest

\* the wait loop finds _stop set while pv has not exited yet
StageCancelled ==
  /\ task.pc = "staging"
  /\ task.stop
  /\ task.pv_stage \in {"running", "terminated"}
  /\ task' = [ScheduleDone(task, FALSE, "Cancelled")
                EXCEPT !.pv_stage = "exited", !.tmp = NoFile]
  /\ UNCHANGED taskRest

\* subprocess.Popen of pv and of dd; the reader thread is started
StartWrite ==
  /\ task.pc = "popen"
  /\ task' = [task EXCEPT !.pc = "writing", !.pv = "running", !.dd = "running",
                          !.reader = "reading"]
  /\ UNCHANGED taskRest

\* Popen raises (no pv, no askpass script): except Exception
StartWriteFails ==
  /\ task.pc = "popen"
  /\ task' = ScheduleDone(task, FALSE, "popen")
  /\ UNCHANGED taskRest

\* pv has passed the whole source on, prints 100 and exits
PvFinishes ==
  /\ task.pv = "running"
  /\ task' = [task EXCEPT !.pv = "finished"]
  /\ UNCHANGED taskRest

\* read_pv_stderr has read the line "100"; it tests _stop for each
\* character before it looks at the line
ReaderTestsStop ==
  /\ task.reader = "reading"
  /\ task.pv = "finished"
  /\ task' = [task EXCEPT !.reader = IF task.stop THEN "returned" ELSE "has_percent"]
  /\ UNCHANGED taskRest

\* read_pv_stderr schedules progress_cb with the percentage
ReaderSchedules ==
  /\ task.reader = "has_percent"
  /\ task' = [task EXCEPT !.reader = "returned", !.progress = @ \cup {100}]
  /\ UNCHANGED taskRest

\* dd has written and synced everything pv passed on
DdExits ==
  /\ task.dd = "running"
  /\ task.pv = "finished"
  /\ task' = [task EXCEPT !.dd = "exited", !.device = SourceContent(task)]
  /\ UNCHANGED taskRest

\* dd exits with an error, by itself or terminated by cancel()
DdFails ==
  /\ task.dd \in {"running", "terminated"}
  /\ task' = [task EXCEPT !.dd = "failed", !.device = "partial",
                          !.pv = IF @ = "running" THEN "terminated" ELSE @]
  /\ UNCHANGED taskRest

\* communicate() has returned: _stop, then the return code, decide
FinishCancelled ==
  /\ task.pc = "writing"
  /\ task.dd \in {"exited", "failed"}
  /\ task.stop
  /\ task' = ScheduleDone(task, FALSE, "Cancelled")
  /\ UNCHANGED taskRest

FinishFailed ==
  /\ task.pc = "writing"
  /\ task.dd = "failed"
  /\ ~task.stop
  /\ task' = ScheduleDone(task, FALSE, "dd failed")
  /\ UNCHANGED taskRest

FinishOk ==
  /\ task.pc = "writing"
  /\ task.dd = "exited"
  /\ ~task.stop
  /\ task' = [ScheduleDone(task, TRUE, "") EXCEPT !.progress = @ \cup {100}]
  /\ UNCHANGED taskRest

NextWrite ==
  \/ StartTask
  \/ Cancel
  \/ Unmount
  \/ UnmountFails
  \/ DecideDirect
  \/ DecideClone
  \/ StageReuse
  \/ StageBegin
  \/ StageFinish
  \/ StageShort
  \/ StageFails
  \/ StageCancelled
  \/ StartWrite
  \/ StartWriteFails
  \/ PvFinishes
  \/ ReaderTestsStop
  \/ ReaderSchedules
  \/ DdExits
  \/ DdFails
  \/ FinishCancelled
  \/ FinishFailed
  \/ FinishOk

SpecWrite == InitWrite /\ [][NextWrite]_vars

\* ------------------------------------------------------------------------
\* The image registry (utils/bm_registry_gsheet.py): the sheet's rows, the
\* module's cache of occupied slots, and claim_unique_slot_and_log.
\* A slot is a size in tenths of a MiB: used_mib_1dp is written with
\* f"{x:.1f}" and read back by _coerce_1dp_str, which agree on these.
\* ------------------------------------------------------------------------
MaxClaims == 3

\* span, the default of choose_free_slot
span ==
  40

\* total_mib_1dp of the images, and the sizes measure_used_total finds
ImageCapacity ==
  12

MeasuredSizes == {ImageCapacity - 2, ImageCapacity - 1}

RegistrySkus == {"BK-1", "BK-2"}

NoSlot == 0 - 1

\* an empty sheet, a module just imported (_OCC_CACHE = None), and
\* BM_SKIP_WATERMARK set or not
RegistryInputs ==
  {[pc |-> "ready", rows |-> <<>>, cached |-> FALSE, cache |-> {}, fresh |-> FALSE,
    skip |-> s, claims |-> 0, outcome |-> "none", row |-> [sku |-> "", slot |-> NoSlot]] :
     s \in BOOLEAN}

InitRegistry ==
  /\ PipelineIdle
  /\ HashIdle
  /\ CalcIdle
  /\ ImgIdle
  /\ VldIdle
  /\ HubIdle
  /\ TaskIdle
  /\ registry \in RegistryInputs

registryRest == <<pipelineVars, hashVars, calc, img, vld, hub, task>>

\* column F of the sheet, as a set
ColumnF(rows) == {rows[ix].slot : ix \in 1..Len(rows)} \ {NoSlot}

\* get_occupied_slots_1dp(): the cached set while it is younger than
\* _OCC_TTL, else the column read now
get_occupied_slots_1dp(r) ==
  IF r.cached /\ r.fresh THEN r.cache ELSE ColumnF(r.rows)

\* find_sku_row: the slot of the first row of the SKU
find_sku_row(rows, sku_) ==
  LET hits == {ix \in 1..Len(rows) : rows[ix].sku = sku_}
  IN  IF hits = {} THEN NoSlot
      ELSE rows[CHOOSE ix \in hits : \A jx \in hits : ix <= jx].slot

\* choose_free_slot: the first free slot at or above the measured size
\* within span and capacity, else the measured size itself
choose_free_slot(occupied, measured_1dp, max_cap_1dp) ==
  LET free == {c \in measured_1dp..(measured_1dp + span) :
                 c <= max_cap_1dp /\ c \notin occupied}
  IN  IF free = {} THEN measured_1dp
      ELSE CHOOSE c \in free : \A d \in free : c <= d

\* claim_unique_slot_and_log(image_path, sku) for an image that measures
\* measured_1dp; nudged says whether _nudge_single_shot returns (the image
\* then rounds to the target) or raises
ClaimUniqueSlotAndLog ==
  /\ registry.pc = "ready"
  /\ registry.claims < MaxClaims
  /\ \E sku_ \in RegistrySkus, measured_1dp \in MeasuredSizes, nudged \in BOOLEAN :
       LET existing_slot == find_sku_row(registry.rows, sku_)
           reuse == /\ existing_slot # NoSlot
                    /\ existing_slot >= measured_1dp
                    /\ existing_slot <= ImageCapacity
           occupied == get_occupied_slots_1dp(registry)
           target_1dp == IF reuse THEN existing_slot
                         ELSE choose_free_slot(occupied, measured_1dp, ImageCapacity)
           nudges == ~registry.skip /\ measured_1dp # target_1dp
           used_mib_1dp == IF nudges THEN target_1dp ELSE measured_1dp
           raises == \/ nudges /\ ~nudged
                     \/ reuse /\ used_mib_1dp # existing_slot
           row == [sku |-> sku_, slot |-> used_mib_1dp]
           looked == [registry EXCEPT
                        !.claims = @ + 1,
                        !.cached = IF reuse THEN @ ELSE TRUE,
                        !.cache = IF reuse THEN @ ELSE occupied,
                        !.fresh = IF reuse THEN @ ELSE TRUE]
       IN  /\ nudged \/ nudges
           /\ registry' =
                IF raises THEN [looked EXCEPT !.outcome = "raised"]
                ELSE IF reuse THEN [looked EXCEPT !.outcome = "reused", !.row = row]
                ELSE [looked EXCEPT !.outcome = "appended", !.row = row,
                                    !.rows = Append(@, row)]
  /\ UNCHANGED registryRest

\* more than _OCC_TTL seconds pass
CacheExpires ==
  /\ registry.pc = "ready"
  /\ registry.cached /\ registry.fresh
  /\ registry' = [registry EXCEPT !.fresh = FALSE]
  /\ UNCHANGED registryRest

NextRegistry ==
  \/ ClaimUniqueSlotAndLog
  \/ CacheExpires

SpecRegistry == InitRegistry /\ [][NextRegistry]_vars

\* ------------------------------------------------------------------------
\* Properties of the pipeline (checked under Spec unless stated otherwise)
\* ------------------------------------------------------------------------
\* the files directly inside tracks/ of the master root
MasterTrackFiles == {p \in Children(masterTree, tracks_path) : ~masterTree[p].dir}

\* create_master_structure has returned in the running or last call
StructureBuilt == "structure" \in Range(trace)

\* Master.create has returned without an exception
CreateSucceeded == pc = "idle" /\ inCreate /\ result = "ok"

\* C1: within create_master_structure, checksum.txt is written only after
\* every processed track has been copied into tracks/
C1_ChecksumAfterCopy ==
  [][(pc = "cms_checksum" /\ pc' = "cms_copy") =>
       \A k \in DOMAIN processed_tracks.files :
         (tracks_path \o Sep \o processed_tracks.files[k].file) \in Paths(masterTree)]_vars

\* C2: once create_master_structure has returned, the content of
\* bookInfo/checksum.txt equals the structure checksum recomputed over the
\* finished master root
C2_StoredChecksumIsFinal ==
  StructureBuilt =>
    masterTree[checksum_file].data = checksum(master_structure, masterTree)

\* C3: the structure checksum is the digest of exactly the regular files
\* under the root except checksum.txt and the operating system's junk, in
\* natural order of their relative paths, each fed as relative path then
\* content; so it does not depend on what checksum.txt holds
C3_ChecksumLeavesItselfOut ==
  master_structure =>
    LET hashed == {p \in Files(masterTree) :
                     /\ p # checksum_file
                     /\ \A c \in Range(Split(p)) : c \notin EXCLUDED_DIRS}
    IN checksum(master_structure, masterTree)
         = hexdigest(HashFeed(natsorted(hashed), masterTree, <<>>))

\* C4 (under SpecHash): the digest taken twice over an untouched tree is the
\* same, and changing one byte of a file or renaming a file changes it
C4_DigestTellsEdits ==
  /\ lastOp = "compute" => TreeDigest(hashTree) = TreeDigest(hashTree0)
  /\ lastOp \in {"modify", "rename"} => TreeDigest(hashTree) # TreeDigest(hashTree0)

\* C5: once create_master_structure has returned, bookInfo/count.txt holds
\* the number of files in tracks/, and validation reports no count mismatch
C5_CountMatchesTracks ==
  StructureBuilt =>
    /\ masterTree[count_file].data = Str(Cardinality(MasterTrackFiles))
    /\ "count_mismatch" \notin Range(validate(masterTree, <<>>, isbn).errors)

C5_Witness ==
  /\ StructureBuilt
  /\ ~inCreate
  /\ Cardinality(MasterTrackFiles) = 2
  /\ Cardinality(DOMAIN inputDir) = 3

\* C6: after a successful create() on n valid input tracks with a non-empty
\* ISBN and SKU, id.txt holds the ISBN, count.txt holds n, tracks/ holds n
\* files and validation is ok with no error
C6_CreateYieldsValidMaster ==
  (/\ CreateSucceeded
   /\ isbn # <<>> /\ sku # <<>>
   /\ \A f \in DOMAIN inputDir : inputDir[f][1] = "audio") =>
    LET n == Cardinality(DOMAIN inputDir)
        report == validate(masterTree, <<>>, isbn)
    IN /\ masterTree[id_file].data = isbn
       /\ masterTree[count_file].data = Str(n)
       /\ Cardinality(MasterTrackFiles) = n
       /\ report.ok
       /\ report.errors = <<>>

C6_Witness ==
  /\ CreateSucceeded
  /\ isbn # <<>> /\ sku # <<>>
  /\ \A f \in DOMAIN inputDir : inputDir[f][1] = "audio"
  /\ Cardinality(DOMAIN inputDir) = 3
  /\ masterTree[count_file].data = <<"3">>
  /\ encoder_runs = 3

\* C7: after a successful create() the n files in tracks/ carry the prefixes
\* 001 .. n, one each, with no gap
C7_PrefixesWithoutGap ==
  CreateSucceeded =>
    {FirstN(BaseName(p), 3) : p \in MasterTrackFiles}
      = {ZFill(Str(k), 3) : k \in 1..Cardinality(MasterTrackFiles)}

\* C8: create() runs load, process, structure, image and the USB write in
\* that order, an exception ends the call before any later step, and the USB
\* write only happens in a call whose create_disk_image returned a path
C8_CreateStepOrder ==
  LET CreateOrder == <<"load", "process", "structure", "image", "usb">>
      done == CASE pc = "load" -> 0
                [] pc \in {"process", "encode", "convert"} -> 1
                [] pc \in {"cms", "cms_info", "cms_checksum", "cms_copy"} -> 2
                [] pc = "image" -> 3
                [] pc = "usb" -> 4
                [] OTHER -> Len(trace)
  IN /\ usb_log \subseteq image_log
     /\ result = "raised" => pc = "idle"
     /\ inCreate =>
          /\ trace = SubSeq(CreateOrder, 1, done)
          /\ (pc = "idle" /\ result = "ok") => Len(trace) >= 4
          /\ (pc = "idle" /\ result = "raised") => Len(trace) <= 3

C8_Witness ==
  /\ CreateSucceeded
  /\ calls \in usb_log
  /\ trace = <<"load", "process", "structure", "image", "usb">>

\* C9: when skip_encoding is set and the processed folder is non-empty with
\* as many files as there are input tracks, process_tracks accepts the files
\* there: no encoder run, no wipe, the folder unchanged, on every call
C9_ReuseLeavesFolder ==
  [][(/\ pc = "process"
      /\ input_tracks.loaded
      /\ skip_encoding
      /\ DOMAIN procDir # {}
      /\ Cardinality(DOMAIN procDir) = Len(input_tracks.files)) =>
       /\ procDir' = procDir
       /\ encoder_runs' = encoder_runs
       /\ pc' \notin {"encode", "convert"}
       /\ processed_tracks' = Tracks(procDir, isbn, sku)]_vars

C9_Witness ==
  /\ calls = 2
  /\ ~inCreate
  /\ trace = <<"process">>
  /\ result = "ok"
  /\ skip_encoding
  /\ master_structure
  /\ encoder_runs = 0
  /\ DOMAIN procDir # {}

\* C10: create_master_structure with an empty ISBN or an empty SKU raises at
\* once, the master root neither wiped nor written
C10_EmptyIdentifierRaisesFirst ==
  [][(pc = "cms" /\ (isbn = <<>> \/ sku = <<>>)) =>
       (result' = "raised" /\ masterTree' = masterTree)]_vars

\* C11: process_tracks and encode_tracks entered with no input tracks loaded,
\* and create_master_structure entered with no processed tracks, raise with
\* every folder and every collection as it was
C11_OutOfSequenceRaisesFirst ==
  [][((pc \in {"process", "encode"} /\ ~input_tracks.loaded)
      \/ (pc = "cms" /\ ~processed_tracks.loaded)) =>
       /\ result' = "raised"
       /\ pc' = "idle"
       /\ procDir' = procDir
       /\ masterTree' = masterTree
       /\ encoder_runs' = encoder_runs
       /\ UNCHANGED collVars]_vars

C11_Witness ==
  /\ calls = 2
  /\ pc = "idle"
  /\ ~inCreate
  /\ result = "raised"
  /\ ~input_tracks.loaded
  /\ ~processed_tracks.loaded
  /\ DOMAIN inputDir # {}
  /\ \A f \in DOMAIN inputDir : inputDir[f][1] = "audio"
  /\ DOMAIN procDir # {}
  /\ masterTree = StaleTree

\* C12 (under SpecCalc): bit-rate selection keeps 5% of the capacity free:
\* the configured rate comes back unchanged when the projected size is at
\* most 95% of the capacity, and a rate strictly below it for every
\* projected size above 95% of the capacity
C12_ReservesFivePercent ==
  (calc.done /\ calc.fn \in BitRateFns) =>
    /\ 20 * calc.size <= 19 * MAX_DRIVE_SIZE => calc.out = calc.rate
    /\ 20 * calc.size > 19 * MAX_DRIVE_SIZE => calc.out < calc.rate

\* C13 (under SpecCalc): for a configured rate of at least 32 kbps the
\* selected rate is never above the configured rate and never below
\* 32000 bit/s
C13_BetweenFloorAndConfigured ==
  (calc.done /\ calc.fn \in BitRateFns /\ calc.rate >= 32000) =>
    /\ calc.out <= calc.rate
    /\ calc.out >= 32000

\* C14 as stated (under SpecCalc): the image size is
\* max(ceil((used_kb + max(0.05 * used_kb, 5 MB)) / 1024), 10) megabytes,
\* the 5% taken exactly
C14_ExactFivePercentBuffer ==
  (calc.done /\ calc.fn = "image_size_mb") =>
    calc.out = IF 20 * 5120 >= calc.size
                 THEN Max((calc.size + 5120 + 1023) \div 1024, 10)
                 ELSE Max((21 * calc.size + 20479) \div 20480, 10)

\* C14 amended (under SpecCalc): the image size is
\* max(ceil((used_kb + max(floor(used_kb / 20), 5 MB)) / 1024), 10)
\* megabytes: never under 10 MB, and never under the content plus that buffer
C14_ImageSizeWithWholeBuffer ==
  (calc.done /\ calc.fn = "image_size_mb") =>
    LET buffer == IF calc.size \div 20 >= 5120 THEN calc.size \div 20 ELSE 5120
        need == calc.size + buffer
        ceil == IF need % 1024 = 0 THEN need \div 1024 ELSE need \div 1024 + 1
    IN /\ calc.out = (IF ceil >= 10 THEN ceil ELSE 10)
       /\ calc.out >= 10
       /\ calc.out * 1024 >= need

C14_Witness ==
  /\ calc.done
  /\ calc.fn = "image_size_mb"
  /\ calc.size = 2048
  /\ calc.out = 10

ToleratedNonZero == img.tool = "mmd" /\ img.stderr = "File exists"

Validated == vld.pc = "validated"

\* what a validator that never ran before returns for the same call
FreshResult ==
  LET run == RunChecks(vld.before, vld.exists, vld.expected_isbn, vld.master_isbn,
                       vld.fix, vld.denied)
  IN ValidationResult(run.errors, run.warnings)

\* a complete master whose one defect is the missing .metadata_never_index
OnlySentinelMissing(tree) ==
  /\ metadata_file \notin Paths(tree)
  /\ Cardinality(ValidatorAudio(tree)) = 2
  /\ ScanSystemArtifacts(tree) = {}
  /\ {id_file, count_file} \subseteq Paths(tree)
  /\ tree[id_file].data = ValidatorIsbn
  /\ tree[count_file].data = <<"2">>

\* C16: validate returns ok exactly when its error list is empty, whatever
\* the warnings; a root whose only defect is a missing .metadata_never_index
\* validates ok with a warning; and the result of a call holds the errors
\* and warnings of that call only, none of an earlier call.
C16_OkIffNoErrors ==
  Validated =>
    /\ vld.result.ok <=> (vld.result.errors = <<>>)
    /\ (OnlySentinelMissing(vld.before) /\ vld.exists) =>
          (vld.result.ok /\ Contains(vld.result.warnings, "missing_metadata"))
    /\ vld.result = FreshResult

\* a second call validates ok, with the warning, after a call that reported errors
C16_Witness ==
  /\ Validated
  /\ vld.n = 2
  /\ vld.prev.errors # <<>>
  /\ OnlySentinelMissing(vld.before)
  /\ vld.result.ok
  /\ Contains(vld.result.warnings, "missing_metadata")

\* the id.txt of the validated root differs from the expected ISBN
IdMismatch(tree) ==
  /\ id_file \in Paths(tree)
  /\ info_path \in Paths(tree)
  /\ vld.expected_isbn # <<>>
  /\ Strip(tree[id_file].data) # vld.expected_isbn

\* C17: validate runs every check before it reports: a missing tracks
\* folder, a missing bookInfo folder or id.txt, an id.txt that differs from
\* the expected ISBN, stray dotfiles and a missing sentinel are each
\* reported by the one call, whatever else is wrong with the root.
C17_EveryDefectReported ==
  Validated =>
    /\ (~vld.exists => Contains(vld.result.errors, "root_missing"))
    /\ (tracks_path \notin Paths(vld.before) => Contains(vld.result.errors, "missing_tracks"))
    /\ (info_path \notin Paths(vld.before) => Contains(vld.result.errors, "missing_bookinfo"))
    /\ ((info_path \in Paths(vld.before) /\ id_file \notin Paths(vld.before))
          => Contains(vld.result.errors, "missing_id"))
    /\ (IdMismatch(vld.before) => Contains(vld.result.errors, "isbn_mismatch"))
    /\ (ScanSystemArtifacts(vld.before) # {} =>
          IF vld.fix
            THEN Contains(vld.result.warnings, "removed") \/ Contains(vld.result.errors, "remove_failed")
            ELSE Contains(vld.result.errors, "system_files"))
    /\ (metadata_file \notin Paths(vld.before) => Contains(vld.result.warnings, "missing_metadata"))

\* one call on a root with four independent defects reports the four
C17_Witness ==
  /\ Validated
  /\ vld.n = 1
  /\ ~vld.fix
  /\ tracks_path \notin Paths(vld.before)
  /\ IdMismatch(vld.before)
  /\ ScanSystemArtifacts(vld.before) # {}
  /\ metadata_file \notin Paths(vld.before)
  /\ Contains(vld.result.errors, "missing_tracks")
  /\ Contains(vld.result.errors, "isbn_mismatch")
  /\ Contains(vld.result.errors, "system_files")
  /\ Contains(vld.result.warnings, "missing_metadata")

\* C18: when the checksum stored in checksum.txt differs from the one
\* recomputed over the root, validate returns ok=False with a
\* checksum-mismatch error.
C18_ChecksumMismatchReported ==
  (/\ Validated
   /\ checksum_file \in Paths(vld.before)
   /\ vld.before[checksum_file].data # checksum(TRUE, vld.before))
  => (~vld.result.ok /\ Contains(vld.result.errors, "checksum_mismatch"))

\* C19: validate reports an error whenever bookInfo/id.txt is missing, is
\* empty after stripping, or differs from the expected ISBN the caller gave.
C19_IdErrorsReported ==
  Validated =>
    LET t == vld.before
        idErr == \/ Contains(vld.result.errors, "missing_bookinfo")
                 \/ Contains(vld.result.errors, "missing_id")
                 \/ Contains(vld.result.errors, "isbn_mismatch")
    IN /\ (id_file \notin Paths(t) => idErr)
       /\ ((id_file \in Paths(t) /\ Strip(t[id_file].data) = <<>>) => idErr)
       /\ (IdMismatch(t) => idErr)

\* p is dot-prefixed and not exempt, or lies inside such a directory
InDotArtifact(p) == \E k \in 1..Len(Split(p)) : IsDotName(Split(p)[k])

\* C20: validate without fix_system_files leaves the root as it was; with
\* fix_system_files it removes only entries of the root that are dot-prefixed
\* and not exempt, with what such directories hold: the root sentinel, the
\* tracks, the bookInfo files and everything outside the root stay.
C20_FixDeletesOnlyDotEntries ==
  Validated =>
    /\ (~vld.fix => vld.root = vld.before)
    /\ Paths(vld.root) \subseteq Paths(vld.before)
    /\ \A p \in Paths(vld.root) : vld.root[p] = vld.before[p]
    /\ \A p \in Paths(vld.before) \ Paths(vld.root) : InDotArtifact(p)
    /\ \A p \in Paths(vld.before) :
         (\/ p = metadata_file
          \/ p \in ValidatorAudio(vld.before)
          \/ (Parent(p) = info_path /\ ~IsDotName(BaseName(p))))
         => p \in Paths(vld.root)
    /\ vld.outside = OutsideTree

\* a fixing call removed a dot-directory with its content and kept the
\* sentinel, the tracks and bookInfo
C20_Witness ==
  /\ Validated
  /\ vld.fix
  /\ TrashedFile \in Paths(vld.before)
  /\ Trashes \notin Paths(vld.root)
  /\ TrashedFile \notin Paths(vld.root)
  /\ {metadata_file, TrackA, TrackB, id_file, count_file} \subseteq Paths(vld.root)

\* ------------------------------------------------------------------------
\* Properties of Track and Tracks (checked under SpecTrack)
\* ------------------------------------------------------------------------
StatusRead == calc.fn = "status" /\ calc.done

\* C21: is_valid is true exactly when the track has no silence events, its
\* frame error count is 0, its ISBN is not empty and its encoding is valid
\* (sample rate and bit rate positive, one channel), the loudness counting
\* only when the loudness test was run.
C21_IsValidIff ==
  StatusRead =>
    /\ ~calc.out.raised
    /\ calc.out.valid <=>
         /\ calc.silences # "some"
         /\ calc.frame_errors = Num(0)
         /\ calc.isbn # <<>>
         /\ calc.sample_rate # NoNumber /\ calc.sample_rate[1] > 0
         /\ calc.bit_rate # NoNumber /\ calc.bit_rate[1] > 0
         /\ calc.channels = Num(1)
         /\ ("loudness" \in calc.tests =>
               (/\ calc.loudness # NoNumber
                /\ -40 < calc.loudness[1] /\ calc.loudness[1] < 0
                /\ loudness_is_close_to_target(calc)))

\* C22: a track whose only findings are the sentinels of probes that could
\* not run (loudness None, frame error count -1) is valid, also when the
\* loudness test was requested.
C22_SentinelIsUntested ==
  (/\ StatusRead
   /\ calc.silences # "some"
   /\ calc.frame_errors \in {Num(-1), Num(0)}
   /\ calc.sample_rate = Num(44100)
   /\ calc.bit_rate = Num(96000)
   /\ calc.channels = Num(1)
   /\ calc.loudness = NoNumber)
  => (~calc.out.raised /\ calc.out.valid)

AccessorRead == calc.fn \in {"isbn", "title", "author"} /\ calc.done

\* the distinct non-empty values the tracks carry
Distinct(values) == {v \in Range(values) : v # None /\ v # <<>>}

\* C24: each of the accessors isbn, title and author raises when the tracks
\* carry more than one distinct non-empty value, returns the value when they
\* carry exactly one (other tracks may carry none), and returns None when no
\* track carries one.
C24_AccessorNeverPicks ==
  AccessorRead =>
    /\ Cardinality(Distinct(calc.values)) > 1 => calc.out.raised
    /\ Cardinality(Distinct(calc.values)) = 1 =>
         (~calc.out.raised /\ Distinct(calc.values) = {calc.out.value})
    /\ Distinct(calc.values) = {} => (~calc.out.raised /\ calc.out.value = None)

\* tracks.isbn raised over three tracks, one empty and two in conflict
C24_Witness ==
  /\ calc.fn = "isbn"
  /\ calc.done
  /\ Len(calc.values) = 3
  /\ <<>> \in Range(calc.values)
  /\ Cardinality(Distinct(calc.values)) = 2
  /\ calc.out.raised

\* C23 (under Spec): Track.convert on a track of unknown duration raises with
\* the encoder not invoked and the destination folder as it was.
C23_NoDurationFailsFirst ==
  [][(pc = "convert" /\ Len(todo) > 0 /\ ~Head(todo).duration) =>
       /\ result' = "raised"
       /\ pc' = "idle"
       /\ encoder_runs' = encoder_runs
       /\ procDir' = procDir]_vars

\* create() was aborted by the first track to convert, of unknown duration:
\* no encoder run, nothing in the processed folder
C23_Witness ==
  /\ inCreate
  /\ calls = 1
  /\ pc = "idle"
  /\ result = "raised"
  /\ input_tracks.loaded
  /\ \E k \in DOMAIN input_tracks.files : ~input_tracks.files[k].duration
  /\ encoder_runs = 0
  /\ DOMAIN procDir = {}

\* the files of the folder the loader matches whose Track can be built
Survivors(dir) ==
  {n \in DOMAIN dir : (\E ext \in valid_extensions : EndsWith(n, ext)) /\ dir[n][1] # "bad"}

\* C25 (under SpecTrack): a file whose Track construction fails is skipped
\* and every other matching file is loaded, in natural order; the load
\* raises exactly when the directory is missing or no file survives.
C25_LoadSkipsBadFiles ==
  (calc.fn = "load" /\ calc.done) =>
    /\ calc.out.raised <=> (~calc.exists \/ Survivors(calc.dir) = {})
    /\ ~calc.out.raised =>
         /\ {calc.out.files[k].file : k \in DOMAIN calc.out.files} = Survivors(calc.dir)
         /\ [k \in DOMAIN calc.out.files |-> calc.out.files[k].file]
              = natsorted(Survivors(calc.dir))

\* a folder whose first file is bad was loaded with its two other files
C25_Witness ==
  /\ calc.fn = "load"
  /\ calc.done
  /\ ~calc.out.raised
  /\ DOMAIN calc.dir = LoadNames
  /\ calc.dir[InputNames[1]][1] = "bad"
  /\ Len(calc.out.files) = 2

\* C26 (under Spec): the partial output a failed encode left in the processed
\* folder is never packaged: no file under tracks/ of the master root is
\* such a partial file, also when a later run with skip_encoding finds the
\* folder.
C26_PartialNeverPackaged ==
  \A p \in MasterTrackFiles : masterTree[p].data # <<"partial">>

\* C27 (under Spec): once create_master_structure has returned, the master
\* root holds the layout (tracks/, bookInfo/ with id.txt, count.txt and
\* checksum.txt, .metadata_never_index) and the processed tracks and nothing
\* else; and in the wipe branch of process_tracks the processed folder holds
\* only outputs of the current input tracks, whatever was there before.
C27_NoStaleContent ==
  /\ StructureBuilt =>
       Paths(masterTree) =
         Range(output_structure)
         \cup {tracks_path \o Sep \o processed_tracks.files[k].file :
                 k \in DOMAIN processed_tracks.files}
  /\ (pc \in {"encode", "convert"} /\ i = 1) =>
       DOMAIN procDir \subseteq
         {input_tracks.files[k].output : k \in DOMAIN input_tracks.files}

\* the master root an earlier run left was rebuilt from a reused processed
\* folder: the stale .DS_Store and the stale track are gone
C27_Witness ==
  /\ StructureBuilt
  /\ calls = 1
  /\ \E f \in DOMAIN procDir : procDir[f] = <<"enc">> \o <<"o", "l", "d">>
  /\ DOMAIN StaleTree \cap Paths(masterTree) = {tracks_path}

\* C28 (under SpecImage): a failure of the registry/watermark hook
\* claim_unique_slot_and_log does not abort create_disk_image: whenever the
\* hook has raised, the call does not end in an exception and the formatted
\* and populated image is still published at the final path.
HookFailed == img.pc # "off" /\ img.error.text = "registry"

C28_HookFailureContained ==
  HookFailed => (img.pc # "raised" /\ img.final = "new")

\* C29 (under SpecCopy): copy_files_to_image never puts OS junk into the
\* image: no entry of the image has a name, or an ancestor directory, that
\* matches a junk pattern (._*, .DS_Store, the Spotlight, Trashes, fseventsd
\* directories, *.tmp), be it a copied file or a created directory.
JunkPath(p) ==
  \E k \in DOMAIN Split(p) : matches_exclude(Split(p)[k])

C29_NoJunkInImage ==
  img.pc \in {"copying", "copied", "failed"} =>
    \A p \in Paths(img.image) : ~JunkPath(p)

\* C30 (under SpecImage): when os.replace fails and the staged file is copied
\* instead, create_disk_image compares the copy with the staged file before
\* it treats the image as published: the step that copies does not lead
\* straight to _lock_readonly and the return, a verification comes between.
PublishedByCopy ==
  /\ img.pc = "publish"
  /\ img'.via = "shutil.copy2"
  /\ img'.pc # "raised"

C30_FallbackCopyVerified ==
  [][PublishedByCopy => img'.pc = "verify"]_vars

\* C31 (under SpecLabel): the FAT volume label derived from any SKU holds
\* only uppercase letters and digits, every other character of the SKU being
\* stripped, and is at most 11 characters long.
C31_LabelIsUpperAlnum ==
  (calc.fn = "label" /\ calc.done) =>
    /\ Len(calc.out) <= 11
    /\ \A k \in DOMAIN calc.out :
         IsAlnum(calc.out[k]) /\ calc.out[k] \notin Range(LowerCase)

\* C32 (under SpecTrack): track discovery returns exactly the files of the
\* directory whose extension is in the allow-list and whose name does not
\* start with a dot: no loaded track is a dotfile such as ._1.mp3, and the
\* index of every loaded track is its place among the listed files that are
\* not dotfiles.
Listed(dir) ==
  natsorted({n \in DOMAIN dir :
               /\ \E ext \in valid_extensions : EndsWith(n, ext)
               /\ n[1] # "."})

C32_DiscoverySkipsDotfiles ==
  (calc.fn = "load" /\ calc.done /\ ~calc.out.raised) =>
    \A k \in DOMAIN calc.out.files :
      LET t == calc.out.files[k]
      IN /\ t.file[1] # "."
         /\ t.index \in DOMAIN Listed(calc.dir)
         /\ Listed(calc.dir)[t.index] = t.file

\* C33 (under SpecTrack): whatever subset of tests is requested, every
\* result field of a test that was not requested holds its safe default
\* after Track construction: the silence list is empty, the frame-error
\* count is 0 and loudness is None; and is_valid can be evaluated on a track
\* whose frame-error test was not requested.
Constructed == calc.fn = "construct" /\ calc.done

C33_UntestedFieldsAtDefaults ==
  Constructed =>
    /\ "silence" \notin calc.tests => calc.out.track.silences = "empty"
    /\ "loudness" \notin calc.tests => calc.out.track.loudness = NoNumber
    /\ "frame_errors" \notin calc.tests =>
         /\ calc.out.track.frame_errors = Num(0)
         /\ ~calc.out.status.raised

\* C34 (under SpecRemove): remove_folder never deletes anything outside the
\* configured output folder; for a path that does not resolve inside
\* output_folder, or that is one of the listed critical system paths, it
\* raises and leaves the filesystem as it was; otherwise, when it returns,
\* the folder exists and is empty.
Removed == calc.fn = "remove" /\ calc.done

OutsideBase(c, p) == ~IsPrefix(Resolve(c.fs0, c.output_folder), p)

C34_RemoveStaysInside ==
  Removed =>
    LET folder == Resolve(calc.fs0, calc.folder_path)
    IN /\ \A p \in DOMAIN calc.fs0 :
            OutsideBase(calc, p) => (p \in DOMAIN calc.fs /\ calc.fs[p] = calc.fs0[p])
       /\ (OutsideBase(calc, folder) \/ calc.folder_path \in critical_paths) =>
            (calc.raised /\ calc.fs = calc.fs0)
       /\ (~OutsideBase(calc, folder) /\ calc.folder_path \notin critical_paths
           /\ ~calc.raised) =>
            /\ folder \in DOMAIN calc.fs
            /\ calc.fs[folder].kind = "dir"
            /\ \A q \in DOMAIN calc.fs : IsPrefix(folder, q) => q = folder

\* C35 (under SpecHub): after every completed _poll_once the drives map
\* holds exactly the mountpoints that poll detected; the callback is called
\* for exactly the polls in which the set changed, with added = new minus
\* old, removed = old minus new and snapshot = the updated map, and only
\* with the lock released; and a thread that reads under the lock
\* (get_snapshot, get_drive_list) sees the mountpoints of a completed update,
\* never a partly applied one.
C35_PollIsAtomic ==
  hub.pc # "off" =>
    /\ (hub.pc = "wait" /\ hub.polls > 0) =>
         Keys(hub.drives) = Keys(hub.current_drives)
    /\ \A k \in DOMAIN hub.log :
         hub.log[k].called <=> (hub.callback /\ hub.log[k].old # hub.log[k].new)
    /\ \A k \in DOMAIN hub.calls :
         LET c == hub.calls[k]
         IN /\ c.lock # "monitor"
            /\ c.poll > 0 =>
                 /\ Keys(c.added) = hub.log[c.poll].new \ hub.log[c.poll].old
                 /\ Keys(c.removed) = hub.log[c.poll].old \ hub.log[c.poll].new
                 /\ Keys(c.snapshot) = hub.log[c.poll].new
    /\ hub.seen.by # "none" => hub.seen.value = hub.seen.committed

\* a poll that found one drive gone and another one new has called the
\* callback, and a reader has seen the new set
C35_Witness ==
  /\ hub.pc = "wait"
  /\ \E k \in DOMAIN hub.calls :
       Keys(hub.calls[k].added) # {} /\ Keys(hub.calls[k].removed) # {}
  /\ hub.seen.by = "get_snapshot"
  /\ hub.seen.value = Keys(hub.drives)
  /\ hub.seen.value # {}

\* C36 (under SpecWrite): for every run of an ImageWriteTask done_cb is
\* scheduled exactly once, and a run during which cancel() was called
\* before the dd process exited reports failure: done_cb never gets
\* success and progress_cb never gets 100.
RunOver == task.pc = "done"

C36_CancelledRunFails ==
  /\ (task.pc # "off" /\ ~RunOver) => Len(task.done) = 0
  /\ RunOver =>
       /\ Len(task.done) = 1
       /\ task.cancelled_early =>
            (~task.done[1].ok /\ 100 \notin task.progress)

\* C37 (under SpecWrite): once cancel() has been called no dd process that
\* writes to the device is started: the step that starts dd is never taken
\* with _stop set.
DdStarts == task.pc # "off" /\ task.dd = "none" /\ task'.dd = "running"

C37_NoWriteAfterCancel ==
  [][DdStarts => ~task.stop]_vars

\* C38 (under SpecWrite): when the image was staged by _stage_with_pv, the
\* file handed to dd has the content of the image now at image_path, also
\* when the staging directory held a file of that name and size before.
WritesStagedFile == task.pc # "off" /\ task.image_src = "staged" /\ task.dd # "none"

C38_StagedFileIsCurrent ==
  WritesStagedFile => task.tmp.content = task.image.content

\* C39 (under SpecRegistry): after any sequence of claim_unique_slot_and_log
\* calls no two different SKUs are registered with the same used_mib_1dp
\* slot, rows appended while the occupied-slot cache is fresh included.
C39_SlotsUniqueAcrossSkus ==
  registry.pc # "off" =>
    \A ix, jx \in 1..Len(registry.rows) :
      registry.rows[ix].sku # registry.rows[jx].sku =>
        registry.rows[ix].slot # registry.rows[jx].slot

\* C40 (under SpecRegistry): after any sequence of
\* claim_unique_slot_and_log calls the registry holds at most one row per
\* SKU.
C40_OneRowPerSku ==
  registry.pc # "off" =>
    \A ix, jx \in 1..Len(registry.rows) :
      registry.rows[ix].sku = registry.rows[jx].sku => ix = jx

====
